---- MODULE Spec2Model ----
(***************************************************************************)
(* Satellite pointer store, audit verifier and segment repair of storj.    *)
(*                                                                         *)
(* Specifications:                                                         *)
(*   Spec          the pointer store with segment commits, deletes,        *)
(*                 repair workers and audit piece removal                  *)
(***************************************************************************)
EXTENDS Integers, Sequences, FiniteSets, TLC

\* ------------------------------------------------------------ bounds
\* Storage nodes known to the overlay beyond the Total a segment needs.
NumSpareNodes == 1
\* Creation timestamps handed out by the satellite clock.
MaxClock == 2
\* Pieces one repair is told are lost, and nodes one audit finds failed.
MaxLost == 1
MaxFailed == 1

\* ------------------------------------------------------------ redundancy
\* Redundancy scheme of the modelled segments (k, m, o, n).
Required == 2
RepairThreshold == 2
SuccessThreshold == 3
Total == 4

PieceNumbers == 0 .. (Total - 1)
Nodes == 1 .. (Total + NumSpareNodes)
\* storj.NodeID{} / a nil *pb.Node
Nil == 0
\* The one segment path the pointer-store workers contend for, and a second
\* path that a pending audit may name.
Paths == {"a", "b"}

\* ------------------------------------------------------------ pointers
\* pb.Pointer of type REMOTE; present = FALSE stands for storage.ErrKeyNotFound.
NoPointer ==
  [present |-> FALSE, creationDate |-> 0, rootPieceId |-> 0,
   pieces |-> << >>, verified |-> FALSE]

RemotePiece(num, node) == [pieceNum |-> num, nodeId |-> node]

PieceNums(ptr) == {ptr.pieces[i].pieceNum : i \in DOMAIN ptr.pieces}
PieceNodes(ptr) == {ptr.pieces[i].nodeId : i \in DOMAIN ptr.pieces}

UniquePieceNums(ptr) ==
  \A i, j \in DOMAIN ptr.pieces :
     i # j => ptr.pieces[i].pieceNum # ptr.pieces[j].pieceNum
UniqueNodeIds(ptr) ==
  \A i, j \in DOMAIN ptr.pieces :
     i # j => ptr.pieces[i].nodeId # ptr.pieces[j].nodeId

\* All sequences without repetition over the set S of exactly len elements.
RECURSIVE Arrangements(_, _)
Arrangements(S, len) ==
  IF len = 0 THEN {<< >>}
  ELSE UNION {{<<x>> \o t : t \in Arrangements(S \ {x}, len - 1)} : x \in S}

Min(a, b) == IF a < b THEN a ELSE b

VARIABLES
  pointers,   \* the pointer DB: path -> pointer
  clock,      \* satellite time, the source of creation dates and piece ids
  rpc,        \* repair worker -> "idle" | "read" | "done" | "failed"
  rref,       \* repair worker -> the pointer it read
  rlost,      \* repair worker -> lostPieces, the argument of its Repair
  apc,        \* audit worker -> "idle" | "read" | "done"
  aref,       \* audit worker -> the pointer it read
  ares,       \* audit worker -> "none" | "ok" | "conflict" | "notfound"
  vpc,        \* Verify: "idle" | "downloaded" | "classified" | "done"
  vpointer,   \* Verify: pointer, read at the start
  vshares,    \* Verify: shares, piece number -> Share
  vnodes,     \* Verify: offlineNodes, failedNodes, containedNodes
  vcorrected, \* Verify: correctedShares, piece number -> data
  vremoved,   \* Verify: what removeFailedPieces returned (it is only logged)
  vreport,    \* Verify: the returned *Report
  verr,       \* Verify: the returned error
  vcancel,    \* Verify: its ctx was cancelled while shares were being downloaded
  containment, \* the containment DB: the PendingAudit entries it holds
  rvpc,       \* Reverify: "idle" | "spawn" | "collect" | "done"
  rvpieces,   \* Reverify: pieces of the pointer it read
  rvi,        \* Reverify: index of the next piece of its first loop
  ch,         \* Reverify: the buffered result channel
  rvcount,    \* Reverify: results received by its second loop
  rvreport,   \* Reverify: the report being filled and returned
  rverr,      \* Reverify: the errors combined into the returned error
  gpc,        \* goroutine of a node: "none" | "get" | "download" | "send" |
              \*   "sendfirst" | "delete" | "done"
  gpending,   \* goroutine: pending, its argument
  gpointer,   \* goroutine: pendingPointer
  gshare,     \* goroutine: share and err of GetShare
  gmsg,       \* goroutine: the result it is sending
  dbNodes,    \* the nodes table: node id -> row of reputation counters
  ocache,     \* the overlay_cache_nodes table: node id -> reputation columns
  ledger,     \* node id -> the counters a serial run of the committed updates gives
  upc,        \* updater -> "idle" | "read", its place in a reputation update
  ureq,       \* updater -> the update it is running
  uread,      \* updater -> dbNode, the row its transaction read
  ures,       \* updater -> "none" | "ok" | "error", how its last update returned
  injured,    \* the injuredsegments table: rows in insertion order
  nextId,     \* the next serial id of the injuredsegments table
  enqueued,   \* the segments of the Enqueue calls that returned without error
  qpc,        \* dequeuer -> "idle" | "first" | "done"
  qres,       \* dequeuer -> res, the row its First_Injuredsegment returned
  qseen,      \* dequeuer -> how many Enqueue calls had returned when it began
  qout,       \* dequeuer -> what its Dequeue returned
  ocNodes,    \* overlay_cache_nodes as node selection reads it: node id -> row
  fres,       \* the last FindStorageNodes call: its request, nodes and error
  bwagreements, \* the bwagreements table: its rows
  bwnow,      \* time.Now() of the satellite database, counted in SaveOrder calls
  bwlog,      \* the SaveOrder calls so far: the order and the error returned
  bwtotals,   \* what the last GetTotals call returned, and its window
  osegs,      \* the pointer DB keys of one object: segment key -> pointer
  copc,       \* CommitObject: "idle" | "probe" | "delete" | "put" | "done"
  cidx,       \* CommitObject: segmentIndex
  clast,      \* CommitObject: lastSegmentPath and lastSegmentPointer
  cerr,       \* CommitObject: the status it returned
  blobs,      \* the blob store of a storage node: the refs it holds
  bloblog,    \* the calls made on the blob store, with what each returned
  getshare,   \* one GetShare call: its inputs, its timedCtx and the time it took
  pipe,       \* a sync2 pipe: its fields, its buffer and the Close calls on it
  pwriter,    \* the goroutine that writes to the pipe: where it is in Write
  preader,    \* the goroutine that reads from the pipe: where it is in Read
  phalf,      \* the halves whose CloseWithError is before its closeHalf, and
              \* what the last CloseWithError of each half returned
  preceived   \* the bytes the Read calls have returned, in order

workerVars == <<clock, rpc, rref, rlost, apc, aref, ares>>
verifyVars == <<vpc, vpointer, vshares, vnodes, vcorrected, vremoved, vreport, verr,
                vcancel>>
mainVars == <<rvpc, rvpieces, rvi, rvcount, rvreport, rverr>>
goVars == <<gpc, gpending, gpointer, gshare, gmsg>>
reverifyVars == <<containment, ch, mainVars, goVars>>
overlayVars == <<dbNodes, ocache, ledger, upc, ureq, uread, ures>>
queueVars == <<injured, nextId, enqueued, qpc, qres, qseen, qout>>
selectVars == <<ocNodes, fres>>
orderVars == <<bwagreements, bwnow, bwlog, bwtotals>>
objectVars == <<osegs, copc, cidx, clast, cerr>>
blobVars == <<blobs, bloblog>>
pipeVars == <<pipe, pwriter, preader, phalf, preceived>>
ioVars == <<blobVars, getshare, pipeVars>>
extVars == <<selectVars, orderVars, objectVars, ioVars>>
dbVars == <<overlayVars, queueVars, extVars>>
storeVars == <<pointers, workerVars, verifyVars, reverifyVars>>
vars == <<storeVars, dbVars>>

\* Two satellite workers; each runs one repair or one audit of the segment.
Workers == {"w1", "w2"}

\* ------------------------------------------------------------ overlay
\* overlaycache.queryFilteredNodes: up to count distinct rows that are not
\* excluded, in random order (ORDER BY RANDOM() LIMIT count).
queryFilteredNodesNoExclude(excluded, count) ==
  IF count = 0 THEN {<< >>}
  ELSE Arrangements(Nodes, Min(count, Cardinality(Nodes)))

queryFilteredNodes(excluded, count) ==
  IF count = 0 THEN {<< >>}
  ELSE Arrangements(Nodes \ excluded, Min(count, Cardinality(Nodes \ excluded)))

\* ------------------------------------------------------------ pointer DB
\* metainfo.Service.Get
MetainfoGet(path) == pointers[path]

\* metainfo.Service.Put / pdb.Put: atomic create-or-replace.
MetainfoPut(db, path, ptr) == [db EXCEPT ![path] = ptr]

\* metainfo.Service.Delete
MetainfoDelete(db, path) == [db EXCEPT ![path] = NoPointer]

\* The pieces of ptr without those of toRemove (matched on piece number and
\* node), followed by toAdd.
ApplyPieces(ptr, toAdd, toRemove) ==
  LET gone(p) == \E i \in DOMAIN toRemove :
                    /\ toRemove[i].pieceNum = p.pieceNum
                    /\ toRemove[i].nodeId = p.nodeId
  IN [ptr EXCEPT !.pieces = SelectSeq(ptr.pieces, LAMBDA p : ~gone(p)) \o toAdd]

\* metainfo.Service.UpdatePieces(path, ref, toAdd, toRemove): compare-and-swap
\* on the pre-image ref.  The result is <<status, db'>>.
UpdatePieces(db, path, ref, toAdd, toRemove) ==
  IF ~db[path].present THEN <<"notfound", db>>
  ELSE IF db[path] # ref THEN <<"conflict", db>>
  ELSE <<"ok", [db EXCEPT ![path] = ApplyPieces(ref, toAdd, toRemove)]>>

\* ------------------------------------------------------------ segment commit
\* One entry of req.UploadResult as the validators see it: sig = the storage
\* node's signature on the piece hash verifies (validatePieceHash), known = the
\* node's identity chain is known (mapNodesFor), size = piece.Hash.PieceSize
\* compared with eestream.CalcPieceSize of the segment.
UploadPiece(num, node, sig, known, size) ==
  [pieceNum |-> num, nodeId |-> node, sig |-> sig, known |-> known, size |-> size]

GoodPiece(limits, num) == UploadPiece(num, limits[num + 1], TRUE, TRUE, "expected")

GoodResults(limits, S) ==
  SelectSeq([i \in 1 .. Total |-> GoodPiece(limits, i - 1)],
            LAMBDA p : p.pieceNum \in S)

Defects == {"badsig", "unknown", "zero", "other", "wrongnode"}

Defect(p, d, limits) ==
  CASE d = "badsig" -> [p EXCEPT !.sig = FALSE]
    [] d = "unknown" -> [p EXCEPT !.known = FALSE]
    [] d = "zero" -> [p EXCEPT !.size = "zero"]
    [] d = "other" -> [p EXCEPT !.size = "other"]
    [] d = "wrongnode" -> [p EXCEPT !.nodeId = limits[((p.pieceNum + 1) % Total) + 1]]

\* The upload results a client may present for the order limits it was given:
\* any subset of at least Required pieces, the full set with one defective
\* piece, and the full set with one piece listed twice.
UploadResults(limits) ==
  LET full == GoodResults(limits, PieceNumbers)
  IN {GoodResults(limits, S) :
         S \in {T \in SUBSET PieceNumbers : Cardinality(T) >= Required}}
     \cup {[full EXCEPT ![j] = Defect(full[j], d, limits)] :
             j \in 1 .. Total, d \in Defects}
     \cup {Append(full, full[j]) : j \in 1 .. Total}

\* Endpoint.validatePointer: every piece names a piece number of the order
\* limits and the node that limit was issued to; a pointer that would hold a
\* piece number or a node twice is refused (the operation is aborted).
validatePointer(pieces, limits) ==
  /\ Len(pieces) > 0
  /\ \A i \in DOMAIN pieces :
        /\ pieces[i].pieceNum \in PieceNumbers
        /\ pieces[i].nodeId = limits[pieces[i].pieceNum + 1]
  /\ \A i, j \in DOMAIN pieces :
        i # j => /\ pieces[i].pieceNum # pieces[j].pieceNum
                 /\ pieces[i].nodeId # pieces[j].nodeId

\* The loop of filterValidPieces over remote.RemotePieces from index i:
\* acc = remotePieces, last = lastPieceSize ("none" for 0).
RECURSIVE filterLoop(_, _, _, _)
filterLoop(pieces, i, acc, last) ==
  IF i > Len(pieces)
  THEN [allSizesValid |-> TRUE, remotePieces |-> acc, lastPieceSize |-> last]
  ELSE LET p == pieces[i]
       IN IF ~p.known \/ ~p.sig
          THEN filterLoop(pieces, i + 1, acc, last)
          ELSE IF p.size = "zero" \/ (last # "none" /\ last # p.size)
          THEN [allSizesValid |-> FALSE, remotePieces |-> acc, lastPieceSize |-> last]
          ELSE filterLoop(pieces, i + 1,
                          Append(acc, RemotePiece(p.pieceNum, p.nodeId)), p.size)

\* Endpoint.filterValidPieces: [err, remotePieces].
filterValidPieces(pieces) ==
  LET r == filterLoop(pieces, 1, << >>, "none")
      numPieces == Len(r.remotePieces)
  IN IF ~r.allSizesValid THEN [err |-> "InvalidArgument", remotePieces |-> << >>]
     ELSE IF r.lastPieceSize # "expected"
     THEN [err |-> "InvalidArgument", remotePieces |-> << >>]
     ELSE IF numPieces <= RepairThreshold /\ numPieces < SuccessThreshold
     THEN [err |-> "InvalidArgument", remotePieces |-> << >>]
     ELSE IF numPieces < SuccessThreshold
     THEN [err |-> "InvalidArgument", remotePieces |-> << >>]
     ELSE [err |-> "nil", remotePieces |-> r.remotePieces]

\* Endpoint.CommitSegment: [err, db].
CommitSegment(db, path, uploadResult, limits, now) ==
  IF Len(uploadResult) < SuccessThreshold
  THEN [err |-> "InvalidArgument", db |-> db]
  ELSE IF ~validatePointer(uploadResult, limits)
  THEN [err |-> "InvalidArgument", db |-> db]
  ELSE LET f == filterValidPieces(uploadResult)
       IN IF f.err # "nil" THEN [err |-> f.err, db |-> db]
          ELSE [err |-> "nil",
                db |-> MetainfoPut(db, path,
                         [present |-> TRUE, creationDate |-> now,
                          rootPieceId |-> now, pieces |-> f.remotePieces,
                          verified |-> TRUE])]

\* ------------------------------------------------------------ repair
\* segmentStore.lookupAndAlignNodes: result[p.PieceNum] = nodes[i], a later piece
\* with the same number overwriting an earlier one.
lookupAndAlignNodes(ptr) ==
  [num \in PieceNumbers |->
     LET idx == {i \in DOMAIN ptr.pieces : ptr.pieces[i].pieceNum = num}
     IN IF idx = {} THEN Nil
        ELSE ptr.pieces[CHOOSE i \in idx : \A j \in idx : j <= i].nodeId]

\* makeRemotePointer numbering the pieces by their place among the non-nil
\* nodes.
makeRemotePointerRenumbered(nodes, pieceID) ==
  LET kept == SelectSeq([i \in 1 .. Total |-> nodes[i - 1]], LAMBDA n : n # Nil)
  IN [present |-> TRUE, creationDate |-> 0, rootPieceId |-> pieceID,
      pieces |-> [i \in DOMAIN kept |-> RemotePiece(i - 1, kept[i])],
      verified |-> FALSE]

\* segmentStore.makeRemotePointer: one piece per non-nil node, numbered by its
\* index; neither CreationDate nor PieceHashesVerified is set.
makeRemotePointer(nodes, pieceID) ==
  [present |-> TRUE, creationDate |-> 0, rootPieceId |-> pieceID,
   pieces |-> SelectSeq([i \in 1 .. Total |-> RemotePiece(i - 1, nodes[i - 1])],
                        LAMBDA p : p.nodeId # Nil),
   verified |-> FALSE]

\* segmentStore.Repair up to the pointer it builds: [err, pointer].  newNodes is
\* the overlay's answer, uploaded the piece numbers whose repair upload
\* succeeded (successfulNodes of ec.Put).
Repair(pr, lostPieces, newNodes, uploaded) ==
  LET originalNodes == lookupAndAlignNodes(pr)
      nilSlots == {i \in PieceNumbers : originalNodes[i] = Nil \/ i \in lostPieces}
      totalNilNodes == Cardinality(nilSlots)
      healthyNodes == [i \in PieceNumbers |->
                         IF i \in nilSlots THEN Nil ELSE originalNodes[i]]
      \* the j-th nil slot in ascending order takes newNodes[totalNilNodes - j]
      rank(i) == Cardinality({s \in nilSlots : s <= i})
      repairNodes == [i \in PieceNumbers |->
                        IF i \in nilSlots
                        THEN newNodes[totalNilNodes - rank(i) + 1] ELSE Nil]
      successfulNodes == [i \in PieceNumbers |->
                            IF i \in uploaded THEN repairNodes[i] ELSE Nil]
      merged == [i \in PieceNumbers |->
                   IF healthyNodes[i] = Nil THEN successfulNodes[i]
                   ELSE healthyNodes[i]]
  IN IF ~pr.present THEN [err |-> "notfound", pointer |-> NoPointer]
     ELSE IF Len(newNodes) # totalNilNodes
     THEN [err |-> "overlay", pointer |-> NoPointer]
     ELSE IF Cardinality(PieceNumbers \ nilSlots) < Required
     THEN [err |-> "download", pointer |-> NoPointer]
     ELSE [err |-> "nil", pointer |-> makeRemotePointer(merged, pr.rootPieceId)]

\* The node ids Repair passes to the overlay as Excluded, and how many nodes
\* it asks for.
RepairExcludedNone(pr) == {}

RepairExcluded(pr) ==
  {lookupAndAlignNodes(pr)[i] : i \in PieceNumbers} \ {Nil}
RepairNilSlots(pr, lostPieces) ==
  {i \in PieceNumbers : lookupAndAlignNodes(pr)[i] = Nil \/ i \in lostPieces}
RepairAmount(pr, lostPieces) == Cardinality(RepairNilSlots(pr, lostPieces))

\* ------------------------------------------------------------ audit removal
\* Verifier.removeFailedPieces: <<status, db'>>.
removeFailedPiecesFresh(db, path, pointer, failedNodes) ==
  IF failedNodes = {} THEN <<"ok", db>>
  ELSE UpdatePieces(db, path, db[path], << >>,
                    SelectSeq(db[path].pieces, LAMBDA p : p.nodeId \in failedNodes))

removeFailedPiecesNone(db, path, pointer, failedNodes) == <<"ok", db>>

removeFailedPieces(db, path, pointer, failedNodes) ==
  IF failedNodes = {} THEN <<"ok", db>>
  ELSE UpdatePieces(db, path, pointer, << >>,
                    SelectSeq(pointer.pieces, LAMBDA p : p.nodeId \in failedNodes))

\* ------------------------------------------------------------ erasure code
\* infectious.NewFEC(required, total) with required = 2: a stripe is two
\* symbols of the prime field of FieldSize elements, share number num is the
\* line through (0, stripe[1]) and (1, stripe[2]) evaluated at num, so shares
\* 0 and 1 are the stripe itself and any two shares determine it.
FieldSize == Total + 1
Symbols == 0 .. (FieldSize - 1)
Stripes == {<<a, b>> : a \in Symbols, b \in Symbols}

\* fec.EncodeSingle(stripeData, share, pieceNum)
EncodeSingle(stripe, num) ==
  (stripe[1] + (stripe[2] + FieldSize - stripe[1]) * num) % FieldSize

\* fec.Correct(shares) on shares = piece number -> data: the shares of the one
\* stripe that at most (len(shares) - required) / 2 of them contradict, an
\* error when there is none.
Correct(shares) ==
  LET m == Cardinality(DOMAIN shares)
      radius == (m - Required) \div 2
      wrong(st) == {i \in DOMAIN shares : shares[i] # EncodeSingle(st, i)}
      fits == {st \in Stripes : Cardinality(wrong(st)) <= radius}
  IN IF m < Required \/ fits = {}
     THEN [err |-> "correct", shares |-> << >>]
     ELSE [err |-> "nil",
           shares |-> LET st == CHOOSE st \in fits : TRUE
                      IN [i \in DOMAIN shares |-> EncodeSingle(st, i)]]

\* rebuildStripe: fec.Rebuild of shares 0 .. required-1 from the corrected
\* shares, copied into the stripe.
rebuildStripe(corrected) ==
  IF Cardinality(DOMAIN corrected) < Required
  THEN [err |-> "rebuild", stripe |-> << >>]
  ELSE [err |-> "nil",
        stripe |-> CHOOSE st \in Stripes :
                      \A i \in DOMAIN corrected : corrected[i] = EncodeSingle(st, i)]

\* pkcrypto.SHA256Hash: collision-free over the few shares of the model.
SHA256Hash(data) == <<"sha256", data>>

\* The stripe that was uploaded for the segment with this root piece id, and
\* the share an honest node holds for a piece of it.
SegmentStripe(rootPieceId) ==
  <<rootPieceId % FieldSize, (2 * rootPieceId + 1) % FieldSize>>
StoredShare(ptr, num) == EncodeSingle(SegmentStripe(ptr.rootPieceId), num)

\* ------------------------------------------------------------ audit: Verify
\* Bounds: how many pieces of one audit answer with anything but their stored
\* share, and by how much a returned share may be off.
MaxFaults == 1
MaxCorruption == 1

\* A share.Error as Verify inspects it: rpc.Error.Has (transport),
\* errs.Is(context.DeadlineExceeded) (ctxDeadline) and the rpcstatus code that
\* errs2.IsRPC compares.
Codes == {"Unknown", "NotFound", "DeadlineExceeded", "Internal"}
ShareErrors ==
  {[transport |-> t, ctxDeadline |-> FALSE, code |-> c] : t \in BOOLEAN, c \in Codes}
  \cup {[transport |-> t, ctxDeadline |-> TRUE, code |-> "Unknown"] : t \in BOOLEAN}
NoError == [transport |-> FALSE, ctxDeadline |-> FALSE, code |-> "OK"]

\* audit.Share
Share(num, node, err, data) ==
  [pieceNum |-> num, nodeId |-> node, err |-> err, data |-> data]

\* What a piece's node does in one audit: it has no order limit because it is
\* in the skip list ("skipped") or offline or disqualified ("nolimit"), it
\* returns its stored share ("good") or a share off by d, or GetShare fails.
Outcomes ==
  {[kind |-> k, err |-> NoError, off |-> 0] : k \in {"good", "skipped", "nolimit"}}
  \cup {[kind |-> "bad", err |-> NoError, off |-> d] : d \in 1 .. MaxCorruption}
  \cup {[kind |-> "error", err |-> e, off |-> 0] : e \in ShareErrors}

AuditOutcomes(ptr) ==
  {oc \in [PieceNums(ptr) -> Outcomes] :
     Cardinality({i \in PieceNums(ptr) : oc[i].kind # "good"}) <= MaxFaults}

\* The node of the pointer's piece with this number.
NodeOfPiece(ptr, num) ==
  ptr.pieces[CHOOSE i \in DOMAIN ptr.pieces : ptr.pieces[i].pieceNum = num].nodeId

\* orders.Service.CreateAuditOrderLimits: one limit per piece, indexed by piece
\* number, nil for a node that is skipped, offline or disqualified.
CreateAuditOrderLimits(ptr, oc) ==
  [num \in PieceNumbers |->
     IF num \in PieceNums(ptr) /\ oc[num].kind \notin {"skipped", "nolimit"}
     THEN NodeOfPiece(ptr, num) ELSE Nil]

\* The skip argument of Verify: the nodes that are in containment.
SkipOf(ptr, oc) ==
  {NodeOfPiece(ptr, num) : num \in {n \in PieceNums(ptr) : oc[n].kind = "skipped"}}

\* getOfflineNodes: the nodes of the pointer with no order limit that are not
\* skipped.
getOfflineNodes(ptr, limits, skip) ==
  LET nodesWithLimit == {limits[num] : num \in PieceNumbers} \ {Nil}
  IN {n \in PieceNodes(ptr) : n \notin nodesWithLimit /\ n \notin skip}

\* Verifier.GetShare for one order limit.
GetShare(ptr, num, node, o) ==
  CASE o.kind = "good" -> Share(num, node, NoError, StoredShare(ptr, num))
    [] o.kind = "bad" ->
         Share(num, node, NoError, (StoredShare(ptr, num) + o.off) % FieldSize)
    [] OTHER -> Share(num, node, o.err, << >>)

\* Verifier.DownloadShares: a share for every non-nil limit.
DownloadShares(ptr, limits, oc) ==
  [num \in {n \in PieceNumbers : limits[n] # Nil} |->
     GetShare(ptr, num, limits[num], oc[num])]

\* Verifier.checkIfSegmentAltered: the error it returns.
checkIfSegmentAlteredAnyDate(db, path, oldPointer) ==
  IF ~db[path].present THEN "deleted" ELSE "nil"

checkIfSegmentAltered(db, path, oldPointer) ==
  IF ~db[path].present THEN "deleted"
  ELSE IF oldPointer.creationDate # db[path].creationDate THEN "deleted"
  ELSE "nil"

\* One pass of Verify's loop over the shares: the collections the share's node
\* is put into.  The branch for an unknown transport error ends without a
\* continue, so control goes on to the rpcstatus checks below it.
classifyShareNotFoundContained(share) ==
  IF share.err = NoError THEN {"audit"}
  ELSE IF share.err.transport /\ share.err.ctxDeadline THEN {"offline"}
  ELSE IF share.err.transport /\ share.err.code = "Unknown" THEN {"offline"}
  ELSE {"contained"}

classifyShare(share) ==
  IF share.err = NoError THEN {"audit"}
  ELSE IF share.err.transport /\ share.err.ctxDeadline THEN {"offline"}
  ELSE IF share.err.transport /\ share.err.code = "Unknown" THEN {"offline"}
  ELSE (IF share.err.transport THEN {"contained"} ELSE {})
       \cup (IF share.err.code = "NotFound" THEN {"failed"}
             ELSE IF share.err.code = "DeadlineExceeded" THEN {"contained"}
             ELSE {"contained"})

NodesClassified(shares, class) ==
  {shares[num].nodeId : num \in {n \in DOMAIN shares : class \in classifyShare(shares[n])}}

\* sharesToAudit, as piece number -> data.
sharesToAudit(shares) ==
  [num \in {n \in DOMAIN shares : "audit" \in classifyShare(shares[n])} |->
     shares[num].data]

\* containedNodes, as piece number -> node.
containedNodes(shares) ==
  [num \in {n \in DOMAIN shares : "contained" \in classifyShare(shares[n])} |->
     shares[num].nodeId]

\* auditShares: [err, pieceNums, corrected].
auditShares(originals) ==
  LET c == Correct(originals)
  IN IF c.err # "nil" THEN [err |-> c.err, pieceNums |-> {}, corrected |-> << >>]
     ELSE [err |-> "nil",
           pieceNums |-> {num \in DOMAIN originals : originals[num] # c.shares[num]},
           corrected |-> c.shares]

\* getSuccessNodes
getSuccessNodes(shares, failedNodes, offlineNodes, contained) ==
  LET fails == failedNodes \cup offlineNodes
                 \cup {contained[num] : num \in DOMAIN contained}
  IN {shares[num].nodeId : num \in DOMAIN shares} \ fails

\* audit.PendingAudit
PendingAudit(node, pieceID, hash, path) ==
  [nodeId |-> node, pieceId |-> pieceID, expectedShareHash |-> hash, path |-> path]

\* createPendingAudits: [err, pending].
createPendingAuditsShifted(contained, correctedShares, ptr, path) ==
  LET st == rebuildStripe(correctedShares)
  IN [err |-> "nil",
      pending |-> {PendingAudit(contained[num], ptr.rootPieceId,
                                SHA256Hash(EncodeSingle(st.stripe, (num + 1) % Total)),
                                path) : num \in DOMAIN contained}]

createPendingAudits(contained, correctedShares, ptr, path) ==
  IF DOMAIN contained = {} THEN [err |-> "nil", pending |-> {}]
  ELSE LET st == rebuildStripe(correctedShares)
       IN IF st.err # "nil" THEN [err |-> st.err, pending |-> {}]
          ELSE [err |-> "nil",
                pending |-> {PendingAudit(contained[num], ptr.rootPieceId,
                                          SHA256Hash(EncodeSingle(st.stripe, num)),
                                          path) : num \in DOMAIN contained}]

\* audit.Report; NoReport is the nil report.
Report(successes, fails, offlines, pendingAudits) ==
  [present |-> TRUE, successes |-> successes, fails |-> fails,
   offlines |-> offlines, pendingAudits |-> pendingAudits]
NoReport ==
  [present |-> FALSE, successes |-> {}, fails |-> {}, offlines |-> {},
   pendingAudits |-> {}]
NoNodes == [offline |-> {}, failed |-> {}, contained |-> << >>]

\* ------------------------------------------------------------ audit: Reverify
\* Bound: the nodes that are in containment for the audited segment.
MaxContained == 1

NoPending == [nodeId |-> Nil, pieceId |-> 0, expectedShareHash |-> << >>, path |-> ""]
NoShare == Share(0, Nil, NoError, << >>)

\* Containment.Delete
ContainmentDelete(c, node) == {e \in c : e.nodeId # node}

\* The nodes that have an entry in containment.
Contained(c) == {e.nodeId : e \in c}

\* Containment.Get for a node that has an entry.
ContainmentGet(c, node) == CHOOSE e \in c : e.nodeId = node

\* Containment.IncrementPending: at most one entry per node, a new one
\* replaces the old one.
IncrementPendingKeep(c, pa) == c \cup {pa}

IncrementPending(c, pa) == {e \in c : e.nodeId # pa.nodeId} \cup {pa}

\* The result struct of Reverify.
Result(node, status, pending, err) ==
  [nodeId |-> node, status |-> status, pendingAudit |-> pending, err |-> err]
NoResult == Result(Nil, "skipped", NoPending, "nil")

\* What a contained node does when its share is asked for again.
ReverifyOutcomes == {o \in Outcomes : o.kind \notin {"skipped", "nolimit"}}

\* orders.Service.CreateAuditOrderLimit for one node.
LimitOutcomes == {"ok", "disqualified", "offline", "error"}

\* The piece number the pointer holds for the node (Reverify's loop over the
\* pending pointer's pieces), 0 with found = FALSE when there is none.
findPiece(ptr, node) ==
  IF node \in PieceNodes(ptr)
  THEN [found |-> TRUE,
        pieceNum |-> ptr.pieces[CHOOSE i \in DOMAIN ptr.pieces :
                                   ptr.pieces[i].nodeId = node].pieceNum]
  ELSE [found |-> FALSE, pieceNum |-> 0]

\* Reverify's goroutine from "analyze the error from GetShare" to the status of
\* the result it sends.  For "failed" it calls removeFailedPieces first.
reverifyShareNoRecheck(db, pending, pendingPointer, share) ==
  IF share.err # NoError
  THEN IF share.err.transport
       THEN IF share.err.ctxDeadline \/ share.err.code = "Unknown"
            THEN "offline" ELSE "contained"
       ELSE IF share.err.code = "NotFound" THEN "failed" ELSE "contained"
  ELSE IF SHA256Hash(share.data) = pending.expectedShareHash
  THEN "success" ELSE "failed"

reverifyShareNotFoundSucceeds(db, pending, pendingPointer, share) ==
  IF share.err # NoError
  THEN IF share.err.transport
       THEN IF share.err.ctxDeadline \/ share.err.code = "Unknown"
            THEN "offline" ELSE "contained"
       ELSE IF share.err.code = "NotFound" THEN "success" ELSE "contained"
  ELSE IF SHA256Hash(share.data) = pending.expectedShareHash THEN "success"
  ELSE IF checkIfSegmentAltered(db, pending.path, pendingPointer) # "nil"
  THEN "success" ELSE "failed"

reverifyShare(db, pending, pendingPointer, share) ==
  LET altered == checkIfSegmentAltered(db, pending.path, pendingPointer)
  IN IF share.err # NoError
     THEN IF share.err.transport
          THEN IF share.err.ctxDeadline THEN "offline"
               ELSE IF share.err.code = "Unknown" THEN "offline"
               ELSE "contained"
          ELSE IF share.err.code = "NotFound"
          THEN IF altered # "nil" THEN "success" ELSE "failed"
          ELSE IF share.err.code = "DeadlineExceeded" THEN "contained"
          ELSE "contained"
     ELSE IF SHA256Hash(share.data) = pending.expectedShareHash THEN "success"
     ELSE IF altered # "nil" THEN "success"
     ELSE "failed"

\* Reverify's switch over a received result: the report after it.
collectResultErredFails(report, result) ==
  CASE result.status = "success" ->
         [report EXCEPT !.successes = @ \cup {result.nodeId}]
    [] result.status = "offline" ->
         [report EXCEPT !.offlines = @ \cup {result.nodeId}]
    [] result.status \in {"failed", "erred"} ->
         [report EXCEPT !.fails = @ \cup {result.nodeId}]
    [] result.status = "contained" ->
         [report EXCEPT !.pendingAudits = @ \cup {result.pendingAudit}]
    [] OTHER -> report

collectResult(report, result) ==
  CASE result.status = "success" ->
         [report EXCEPT !.successes = @ \cup {result.nodeId}]
    [] result.status = "offline" ->
         [report EXCEPT !.offlines = @ \cup {result.nodeId}]
    [] result.status = "failed" ->
         [report EXCEPT !.fails = @ \cup {result.nodeId}]
    [] result.status = "contained" ->
         [report EXCEPT !.pendingAudits = @ \cup {result.pendingAudit}]
    [] OTHER -> report

\* err = errs.Combine(err, result.err) for an erred result; a nil error adds
\* nothing.  The combined error is kept as the set of its components.
combineErr(err, result) ==
  IF result.status = "erred" /\ result.err # "nil"
  THEN err \cup {<<result.nodeId, result.err>>} ELSE err

\* ------------------------------------------------------------ reputation
\* The nodes the reputation tables hold rows for, the satellite processes that
\* update them, and the cap on a counter.
MaxCount == 2
StatNodes == {1}
Updaters == {"u1", "u2"}

RECURSIVE GCD(_, _)
GCD(a, b) == IF b = 0 THEN a ELSE GCD(b, a % b)

\* float64(successCount) / float64(totalCount), totalCount > 0: the quotient as
\* a fraction in lowest terms <<numerator, denominator>>.
Ratio(successCount, totalCount) ==
  LET g == GCD(successCount, totalCount)
  IN <<successCount \div g, totalCount \div g>>
ZeroRatio == <<0, 1>>

\* updateRatioVars without the increment of totalCount.
updateRatioVarsNoTotal(newStatus, successCount, totalCount) ==
  LET s == IF newStatus THEN successCount + 1 ELSE successCount
  IN [successCount |-> s, totalCount |-> totalCount,
      ratio |-> IF totalCount = 0 THEN ZeroRatio ELSE Ratio(s, totalCount)]

\* updateRatioVars: totalCount++; if newStatus, successCount++; the new ratio.
updateRatioVars(newStatus, successCount, totalCount) ==
  LET t == totalCount + 1
      s == IF newStatus THEN successCount + 1 ELSE successCount
  IN [successCount |-> s, totalCount |-> t, ratio |-> Ratio(s, t)]

\* checkRatioVars: [err, ratio].
checkRatioVars(successCount, totalCount) ==
  IF successCount < 0 THEN [err |-> "success count less than 0", ratio |-> ZeroRatio]
  ELSE IF totalCount < 0 THEN [err |-> "total count less than 0", ratio |-> ZeroRatio]
  ELSE IF successCount > totalCount
  THEN [err |-> "success count greater than total count", ratio |-> ZeroRatio]
  ELSE IF totalCount = 0 THEN [err |-> "nil", ratio |-> ZeroRatio]
  ELSE [err |-> "nil", ratio |-> Ratio(successCount, totalCount)]

\* A row of the nodes table (dbx.Node), and the absent row.
NodeRow(asc, tac, asr, usc, tuc, ur) ==
  [present |-> TRUE, auditSuccessCount |-> asc, totalAuditCount |-> tac,
   auditSuccessRatio |-> asr, uptimeSuccessCount |-> usc,
   totalUptimeCount |-> tuc, uptimeRatio |-> ur]
NoRow ==
  [present |-> FALSE, auditSuccessCount |-> 0, totalAuditCount |-> 0,
   auditSuccessRatio |-> ZeroRatio, uptimeSuccessCount |-> 0,
   totalUptimeCount |-> 0, uptimeRatio |-> ZeroRatio]

\* overlay.NodeStats as Create takes it; NilStats is the nil pointer.
NodeStats(asc, ac, usc, uc) ==
  [nil |-> FALSE, auditSuccessCount |-> asc, auditCount |-> ac,
   uptimeSuccessCount |-> usc, uptimeCount |-> uc]
NilStats ==
  [nil |-> TRUE, auditSuccessCount |-> 0, auditCount |-> 0,
   uptimeSuccessCount |-> 0, uptimeCount |-> 0]
StartCounts == (0 - 1) .. 1
StartingStats ==
  {NilStats} \cup {NodeStats(asc, ac, usc, uc) :
                     asc \in StartCounts, ac \in StartCounts,
                     usc \in StartCounts, uc \in StartCounts}

\* getNodeStats: the counters of a row as overlay.NodeStats.
getNodeStats(dbNode) ==
  NodeStats(dbNode.auditSuccessCount, dbNode.totalAuditCount,
            dbNode.uptimeSuccessCount, dbNode.totalUptimeCount)

\* overlaycache.Create: [err, db].  Create_Node fails on a row that exists.
Create(db, nodeID, startingStats) ==
  LET audit == IF startingStats.nil THEN [err |-> "nil", ratio |-> ZeroRatio]
               ELSE checkRatioVars(startingStats.auditSuccessCount,
                                   startingStats.auditCount)
      uptime == IF startingStats.nil THEN [err |-> "nil", ratio |-> ZeroRatio]
                ELSE checkRatioVars(startingStats.uptimeSuccessCount,
                                    startingStats.uptimeCount)
  IN IF audit.err # "nil" THEN [err |-> "errAuditSuccess", db |-> db]
     ELSE IF uptime.err # "nil" THEN [err |-> "errUptime", db |-> db]
     ELSE IF db[nodeID].present THEN [err |-> "constraint", db |-> db]
     ELSE [err |-> "nil",
           db |-> [db EXCEPT ![nodeID] =
                     NodeRow(startingStats.auditSuccessCount, startingStats.auditCount,
                             audit.ratio, startingStats.uptimeSuccessCount,
                             startingStats.uptimeCount, uptime.ratio)]]

\* overlaycache.CreateEntryIfNotExists: [err, stats, db].
CreateEntryIfNotExists(db, nodeID) ==
  IF db[nodeID].present
  THEN [err |-> "nil", stats |-> getNodeStats(db[nodeID]), db |-> db]
  ELSE LET c == Create(db, nodeID, NilStats)
       IN [err |-> c.err, stats |-> getNodeStats(c.db[nodeID]), db |-> c.db]

\* tx.Update_Node_By_Id: the row with the columns that updateFields sets
\* replaced, the others kept.
Update_Node_By_Id(row, updateFields) ==
  [c \in DOMAIN row |->
     IF c \in DOMAIN updateFields THEN updateFields[c] ELSE row[c]]

\* The updateFields of overlaycache.UpdateStats, computed from the dbNode its
\* transaction read.
UpdateStats(dbNode, updateReq) ==
  LET a == updateRatioVars(updateReq.auditSuccess, dbNode.auditSuccessCount,
                           dbNode.totalAuditCount)
      u == updateRatioVars(updateReq.isUp, dbNode.uptimeSuccessCount,
                           dbNode.totalUptimeCount)
  IN [auditSuccessCount |-> a.successCount, totalAuditCount |-> a.totalCount,
      auditSuccessRatio |-> a.ratio, uptimeSuccessCount |-> u.successCount,
      totalUptimeCount |-> u.totalCount, uptimeRatio |-> u.ratio]

\* UpdateUptime that rewrites the audit columns as well.
UpdateUptimeAllColumns(dbNode, isUp) ==
  UpdateStats(dbNode, [auditSuccess |-> isUp, isUp |-> isUp])

\* The updateFields of overlaycache.UpdateUptime.
UpdateUptime(dbNode, isUp) ==
  LET u == updateRatioVars(isUp, dbNode.uptimeSuccessCount, dbNode.totalUptimeCount)
  IN [uptimeSuccessCount |-> u.successCount, totalUptimeCount |-> u.totalCount,
      uptimeRatio |-> u.ratio]

\* The updateFields of overlaycache.UpdateAuditSuccess.
UpdateAuditSuccess(dbNode, auditSuccess) ==
  LET a == updateRatioVars(auditSuccess, dbNode.auditSuccessCount,
                           dbNode.totalAuditCount)
  IN [auditSuccessCount |-> a.successCount, totalAuditCount |-> a.totalCount,
      auditSuccessRatio |-> a.ratio]

\* A reputation update: the method called and its arguments (an argument the
\* method does not take is FALSE).
UpdateCall(node, op, auditSuccess, isUp) ==
  [node |-> node, op |-> op, auditSuccess |-> auditSuccess, isUp |-> isUp]
NoCall == UpdateCall(0, "none", FALSE, FALSE)

\* How the audit reporter applies an outcome to a node.
ReportedOutcomes == {"success", "fail", "offline", "contained"}
ApplyOutcome(node, outcome) ==
  CASE outcome = "success" -> UpdateCall(node, "UpdateStats", TRUE, TRUE)
    [] outcome = "fail" -> UpdateCall(node, "UpdateStats", FALSE, TRUE)
    [] outcome = "offline" -> UpdateCall(node, "UpdateUptime", FALSE, FALSE)
    [] outcome = "contained" -> UpdateCall(node, "none", FALSE, FALSE)

\* The calls an updater can make on a node.
UpdateCalls(node) ==
  {ApplyOutcome(node, o) : o \in ReportedOutcomes}
    \cup {UpdateCall(node, "UpdateStats", a, u) : a \in BOOLEAN, u \in BOOLEAN}
    \cup {UpdateCall(node, "UpdateUptime", FALSE, u) : u \in BOOLEAN}
    \cup {UpdateCall(node, "UpdateAuditSuccess", a, FALSE) : a \in BOOLEAN}

\* The updateFields a call computes from the row it read.
CallFields(dbNode, call) ==
  CASE call.op = "UpdateStats" -> UpdateStats(dbNode, call)
    [] call.op = "UpdateUptime" -> UpdateUptime(dbNode, call.isUp)
    [] call.op = "UpdateAuditSuccess" -> UpdateAuditSuccess(dbNode, call.auditSuccess)

\* The counters a call would raise stay within the cap; it is applied to the
\* counts of the updates committed so far.
WithinCap(dbNode, call) ==
  /\ call.op \in {"UpdateStats", "UpdateAuditSuccess"}
        => dbNode.totalAuditCount < MaxCount
  /\ call.op \in {"UpdateStats", "UpdateUptime"}
        => dbNode.totalUptimeCount < MaxCount

\* A row of overlay_cache_nodes, its reputation columns only.
CacheRow(stats) ==
  [present |-> TRUE, auditCount |-> stats.auditCount,
   auditSuccessCount |-> stats.auditSuccessCount,
   uptimeCount |-> stats.uptimeCount,
   uptimeSuccessCount |-> stats.uptimeSuccessCount]
NoCacheRow ==
  [present |-> FALSE, auditCount |-> 0, auditSuccessCount |-> 0,
   uptimeCount |-> 0, uptimeSuccessCount |-> 0]

\* overlaycache.Update(info) with info = [id, reputation]: [err, oc].  The row
\* is created with a nil reputation read as zeros; the update of a row that
\* exists reads info.Reputation without the nil check.
Update(oc, info) ==
  LET reputation == IF info.reputation.nil THEN NodeStats(0, 0, 0, 0)
                    ELSE info.reputation
  IN IF info.id = 0 THEN [err |-> "ErrEmptyNode", oc |-> oc]
     ELSE IF ~oc[info.id].present
     THEN [err |-> "nil", oc |-> [oc EXCEPT ![info.id] = CacheRow(reputation)]]
     ELSE IF info.reputation.nil THEN [err |-> "panic", oc |-> oc]
     ELSE [err |-> "nil", oc |-> [oc EXCEPT ![info.id] = CacheRow(info.reputation)]]

InitOverlay ==
  /\ dbNodes = [n \in StatNodes |-> NoRow]
  /\ ocache = [n \in StatNodes |-> NoCacheRow]
  /\ ledger = [n \in StatNodes |-> NoRow]
  /\ upc = [u \in Updaters |-> "idle"]
  /\ ureq = [u \in Updaters |-> NoCall]
  /\ uread = [u \in Updaters |-> NoRow]
  /\ ures = [u \in Updaters |-> "none"]

\* ------------------------------------------------------------ repair queue
\* The segments the checker can enqueue, the concurrent Dequeue callers and the
\* number of Enqueue calls.
MaxEnqueue == 3
Dequeuers == {"d1", "d2"}
LookupLimit == 1000

InjuredSegment(path, lostPieces) == [path |-> path, lostPieces |-> lostPieces]
InjuredSegments ==
  {InjuredSegment(p, l) : p \in {"a", "b"}, l \in {<<0>>, <<1>>}}
NoSegment == InjuredSegment("", << >>)

\* proto.Marshal / proto.Unmarshal of a pb.InjuredSegment: the fields in field
\* order.
Marshal(seg) == <<seg.path, seg.lostPieces>>
Unmarshal(info) == InjuredSegment(info[1], info[2])

\* A row of injuredsegments (serial id, info) and the nil row.
InjuredRow(id, info) == [id |-> id, info |-> info]
NilRow == InjuredRow(0, << >>)

\* The dbx statements on injuredsegments; the table is the sequence of its rows
\* in insertion order.
Create_Injuredsegment(rows, id, info) == Append(rows, InjuredRow(id, info))
First_Injuredsegment(rows) == IF rows = << >> THEN NilRow ELSE rows[1]
Limited_Injuredsegment(rows, limit, offset) ==
  SubSeq(rows, offset + 1, Min(Len(rows), offset + limit))
Delete_Injuredsegment_By_Info(rows, info) ==
  [deleted |-> \E i \in DOMAIN rows : rows[i].info = info,
   rows |-> SelectSeq(rows, LAMBDA r : r.info # info)]

\* repairQueue.Peekqueue: the segments of the first limit rows.
Peekqueue(rows, limit) ==
  LET lim == IF limit <= 0 \/ limit > LookupLimit THEN LookupLimit ELSE limit
      res == Limited_Injuredsegment(rows, lim, 0)
  IN [i \in DOMAIN res |-> Unmarshal(res[i].info)]

\* What a Dequeue call returns.
DequeueResult(err, seg) == [err |-> err, seg |-> seg]
NoDequeue == DequeueResult("none", NoSegment)

InitQueue ==
  /\ injured = << >>
  /\ nextId = 1
  /\ enqueued = << >>
  /\ qpc = [d \in Dequeuers |-> "idle"]
  /\ qres = [d \in Dequeuers |-> NilRow]
  /\ qseen = [d \in Dequeuers |-> 0]
  /\ qout = [d \in Dequeuers |-> NoDequeue]

\* ------------------------------------------------------------ node selection
\* The nodes of the overlay cache that selection is run on, the largest
\* RequestedCount and the piece size an upload asks room for.
MaxRequested == 2
SelNodes == {1, 2, 3}
MaxPieceSize == 1

\* A row of overlay_cache_nodes, the columns the selection queries read.
\* Ratios are 0 (0.0) or 1 (1.0).
CacheNode(nodeType, freeBandwidth, freeDisk, auditCount, auditSuccessRatio, uptimeCount, uptimeRatio) ==
  [present |-> TRUE, node_type |-> nodeType, free_bandwidth |-> freeBandwidth,
   free_disk |-> freeDisk, audit_count |-> auditCount,
   audit_success_ratio |-> auditSuccessRatio, uptime_count |-> uptimeCount,
   audit_uptime_ratio |-> uptimeRatio]

NoCacheNode ==
  [present |-> FALSE, node_type |-> "none", free_bandwidth |-> 0, free_disk |-> 0,
   audit_count |-> 0, audit_success_ratio |-> 0, uptime_count |-> 0,
   audit_uptime_ratio |-> 0]

\* The rows overlaycache.Update is given: a vetted node in good standing, a node
\* that was never audited or pinged, and vetted nodes that miss one minimum.
CacheNodes ==
  { CacheNode("storage", 1, 1, 2, 1, 2, 1),
    CacheNode("storage", 1, 1, 0, 0, 0, 0),
    CacheNode("storage", 0, 1, 2, 1, 2, 1),
    CacheNode("storage", 1, 0, 2, 1, 2, 1),
    CacheNode("storage", 1, 1, 2, 0, 2, 1),
    CacheNode("storage", 1, 1, 2, 1, 2, 0) }

\* overlay.NodeSelectionConfig: the reputation a vetted node needs and the
\* audit count below which a node is new.
NodeSelectionConfig ==
  [AuditCount |-> 2, AuditSuccessRatio |-> 1, UptimeCount |-> 2, UptimeRatio |-> 1,
   NewNodeAuditThreshold |-> 2, NewNodeDivisor |-> 2]

\* overlay.NodeCriteria and overlay.NewNodeCriteria
NodeCriteria(freeBandwidth, freeDisk, excluded) ==
  [FreeBandwidth |-> freeBandwidth, FreeDisk |-> freeDisk,
   AuditCount |-> NodeSelectionConfig.AuditCount,
   AuditSuccessRatio |-> NodeSelectionConfig.AuditSuccessRatio,
   UptimeCount |-> NodeSelectionConfig.UptimeCount,
   UptimeSuccessRatio |-> NodeSelectionConfig.UptimeRatio,
   Excluded |-> excluded]

NewNodeCriteria(freeBandwidth, freeDisk, excluded) ==
  [FreeBandwidth |-> freeBandwidth, FreeDisk |-> freeDisk,
   AuditThreshold |-> NodeSelectionConfig.NewNodeAuditThreshold,
   Excluded |-> excluded]

\* overlaycache.queryFilteredNodes over the rows of the table: nil for count 0,
\* else up to count rows that satisfy safeQuery (the set matching) and are not
\* excluded, in random order; fewer rows than count are returned without an
\* error.
queryFilteredNodesWhere(cache, excluded, count, matching) ==
  LET rows == {n \in DOMAIN cache :
                 cache[n].present /\ n \in matching /\ n \notin excluded}
  IN IF count = 0 THEN {<< >>}
     ELSE Arrangements(rows, Min(count, Cardinality(rows)))

\* overlaycache.SelectStorageNodes, its WHERE clause and the query.
ReputableWhereAnyUptimeRatio(row, criteria) ==
  /\ row.node_type = "storage"
  /\ row.free_bandwidth >= criteria.FreeBandwidth
  /\ row.free_disk >= criteria.FreeDisk
  /\ row.audit_count >= criteria.AuditCount
  /\ row.audit_success_ratio >= criteria.AuditSuccessRatio
  /\ row.uptime_count >= criteria.UptimeCount

ReputableWhere(row, criteria) ==
  /\ row.node_type = "storage"
  /\ row.free_bandwidth >= criteria.FreeBandwidth
  /\ row.free_disk >= criteria.FreeDisk
  /\ row.audit_count >= criteria.AuditCount
  /\ row.audit_success_ratio >= criteria.AuditSuccessRatio
  /\ row.uptime_count >= criteria.UptimeCount
  /\ row.audit_uptime_ratio >= criteria.UptimeSuccessRatio

SelectStorageNodesAnyDisk(cache, count, criteria) ==
  queryFilteredNodesWhere(cache, criteria.Excluded, count,
     {n \in DOMAIN cache :
        ReputableWhere([cache[n] EXCEPT !.free_disk = criteria.FreeDisk],
                       criteria)})

SelectStorageNodes(cache, count, criteria) ==
  queryFilteredNodesWhere(cache, criteria.Excluded, count,
     {n \in DOMAIN cache : ReputableWhere(cache[n], criteria)})

\* overlaycache.SelectNewStorageNodes, its WHERE clause and the query.
NewWhere(row, criteria) ==
  /\ row.node_type = "storage"
  /\ row.free_bandwidth >= criteria.FreeBandwidth
  /\ row.free_disk >= criteria.FreeDisk
  /\ row.audit_count < criteria.AuditThreshold

SelectNewStorageNodes(cache, count, criteria) ==
  queryFilteredNodesWhere(cache, criteria.Excluded, count,
     {n \in DOMAIN cache : NewWhere(cache[n], criteria)})

\* overlay.FindStorageNodesRequest and what FindStorageNodes returns.
FindStorageNodesRequest(requestedCount, space, excluded) ==
  [RequestedCount |-> requestedCount, FreeBandwidth |-> space, FreeDisk |-> space,
   ExcludedNodes |-> excluded]

FindResult(req, new, reputable, err) ==
  [called |-> TRUE, req |-> req, new |-> new, reputable |-> reputable,
   nodes |-> IF err = "nil" THEN new \o reputable ELSE << >>, err |-> err]

NoFind ==
  [called |-> FALSE, req |-> FindStorageNodesRequest(0, 0, {}), new |-> << >>,
   reputable |-> << >>, nodes |-> << >>, err |-> "none"]

SeqRange(q) == {q[i] : i \in DOMAIN q}

\* overlay.Cache.FindStorageNodes: a fixed fraction of the requested nodes is
\* asked of SelectNewStorageNodes, the rest of SelectStorageNodes (excluding
\* the new nodes chosen); fewer nodes than requested is InsufficientNodes.
FindStorageNodes(cache, req) ==
  LET newCount == req.RequestedCount \div NodeSelectionConfig.NewNodeDivisor
  IN UNION {
       { FindResult(req, new, reputable,
                    IF Len(new) + Len(reputable) < req.RequestedCount
                    THEN "InsufficientNodes" ELSE "nil") :
           reputable \in SelectStorageNodes(cache, req.RequestedCount - Len(new),
                           NodeCriteria(req.FreeBandwidth, req.FreeDisk,
                                        req.ExcludedNodes \cup SeqRange(new))) } :
       new \in SelectNewStorageNodes(cache, newCount,
                  NewNodeCriteria(req.FreeBandwidth, req.FreeDisk, req.ExcludedNodes)) }

InitSelect ==
  /\ ocNodes = [n \in SelNodes |-> NoCacheNode]
  /\ fres = NoFind

\* ------------------------------------------------------------ bandwidth agreements
\* The number of SaveOrder calls.
MaxSubmit == 3

\* pb.BandwidthAction, in the order of GetTotals' columns.
BandwidthActions == <<"PUT", "GET", "GET_AUDIT", "GET_REPAIR", "PUT_REPAIR">>

\* pb.Order: PayerAllocation.SerialNumber, StorageNodeId, PayerAllocation.Action
\* and Total. Serial numbers and node ids are strings of a fixed length.
Order(serialNumber, storageNodeId, action, total) ==
  [SerialNumber |-> serialNumber, StorageNodeId |-> storageNodeId,
   Action |-> action, Total |-> total]

OrderNodes == {<<"n", "1">>, <<"n", "2">>}

Orders ==
  { Order(<<"s", "1">>, <<"n", "1">>, "PUT", 1),
    Order(<<"s", "1">>, <<"n", "2">>, "PUT", 1),
    Order(<<"s", "2">>, <<"n", "1">>, "GET", 2),
    Order(<<"s", "1">>, <<"n", "1">>, "PUT", 2) }

\* The serialnum column of an order: rba.PayerAllocation.SerialNumber +
\* rba.StorageNodeId.String()
Serialnum(rba) == rba.SerialNumber \o rba.StorageNodeId

\* A row of bwagreements.
Bwagreement(rba, createdAt) ==
  [serialnum |-> Serialnum(rba), storage_node_id |-> rba.StorageNodeId,
   action |-> rba.Action, total |-> rba.Total, created_at |-> createdAt]

\* INSERT INTO bwagreements: PRIMARY KEY ( serialnum ) refuses a row whose
\* serialnum the table holds.
InsertBwagreementNoKey(rows, row) == [err |-> "nil", rows |-> rows \cup {row}]

InsertBwagreement(rows, row) ==
  IF \E r \in rows : r.serialnum = row.serialnum
  THEN [err |-> "unique violation", rows |-> rows]
  ELSE [err |-> "nil", rows |-> rows \cup {row}]

\* bandwidthagreement.SaveOrder: one INSERT, whose error is returned.
SaveOrderIgnoreConflict(rows, rba, now) ==
  [err |-> "nil", rows |-> InsertBwagreement(rows, Bwagreement(rba, now)).rows]

SaveOrder(rows, rba, now) == InsertBwagreement(rows, Bwagreement(rba, now))

\* SUM(total) over a set of rows.
RECURSIVE SumTotal(_)
SumTotal(rows) ==
  IF rows = {} THEN 0
  ELSE LET r == CHOOSE x \in rows : TRUE IN r.total + SumTotal(rows \ {r})

\* bandwidthagreement.GetTotals: per storage node with a row created in
\* (from, to], the sum of the totals of each action.
GetTotals(rows, from, to) ==
  LET window == {r \in rows : r.created_at > from /\ r.created_at <= to}
  IN [n \in {r.storage_node_id : r \in window} |->
        [i \in DOMAIN BandwidthActions |->
           SumTotal({r \in window : /\ r.storage_node_id = n
                                    /\ r.action = BandwidthActions[i]})]]

NoTotals == [called |-> FALSE, from |-> 0, to |-> 0, totals |-> << >>]

InitOrders ==
  /\ bwagreements = {}
  /\ bwnow = 0
  /\ bwlog = << >>
  /\ bwtotals = NoTotals

\* ------------------------------------------------------------ object commit
\* The largest segment index an uplink commits and the number of uploads of
\* one segment.
MaxSegmentIndex == 2
MaxUploads == 2

\* CreatePath: the segment entry of the path, "l" for index -1 and "s" followed
\* by the index above it; the project, bucket and encrypted path entries are
\* those of the one object.
CreatePathAlwaysIndexed(segmentIndex) ==
  IF segmentIndex < 0 - 1 THEN [err |-> "invalid segment index", path |-> << >>]
  ELSE [err |-> "nil", path |-> <<"s", segmentIndex>>]

CreatePath(segmentIndex) ==
  IF segmentIndex < 0 - 1 THEN [err |-> "invalid segment index", path |-> << >>]
  ELSE IF segmentIndex > 0 - 1
       THEN [err |-> "nil", path |-> <<"s", segmentIndex>>]
       ELSE [err |-> "nil", path |-> <<"l">>]

\* The keys of the object: l and s-1 (never written by CreatePath), s0 ...
\* s(MaxSegmentIndex + 1).
SegmentKeys == {<<"l">>} \cup {<<"s", i>> : i \in (0 - 1) .. (MaxSegmentIndex + 1)}

\* A segment pointer of the object: the upload it comes from, its redundancy
\* scheme and its metadata.
SegmentPointer(upload, redundancy, metadata) ==
  [present |-> TRUE, upload |-> upload, Redundancy |-> redundancy,
   Metadata |-> metadata]

NoSegmentPointer ==
  [present |-> FALSE, upload |-> 0, Redundancy |-> "none", Metadata |-> "none"]

NoLastSegment == [path |-> << >>, pointer |-> NoSegmentPointer]

\* metainfo.Service.Delete(path, oldPointerBytes): the key is deleted if its
\* value is still oldPointerBytes.
MetainfoDeleteIfUnchanged(db, path, oldPointer) ==
  IF db[path] = oldPointer
  THEN [err |-> "nil", db |-> [db EXCEPT ![path] = NoSegmentPointer]]
  ELSE [err |-> "value changed", db |-> db]

InitObject ==
  /\ osegs = [k \in SegmentKeys |-> NoSegmentPointer]
  /\ copc = "idle"
  /\ cidx = 0
  /\ clast = NoLastSegment
  /\ cerr = "none"

\* ------------------------------------------------------------ blob store
\* filestore.Store over a directory of blobs. A blob ref is a namespace (the
\* satellite) and a key (the piece).
MaxBlobOps == 3
BlobRefs == {[Namespace |-> s, Key |-> k] : s \in {1, 2}, k \in {1, 2}}

\* Dir.Delete: unlinks the blob; a blob that is not there is not an error.
DirDelete(dir, ref) == [dir |-> dir \ {ref}, err |-> "nil"]

\* Dir.Open: the file of the blob, or the os error of a file that is missing.
DirOpen(dir, ref) ==
  IF ref \in dir THEN [file |-> ref, err |-> "nil"]
  ELSE [file |-> "none", err |-> "file does not exist"]

\* Dir.Commit of a blob writer: the temporary file is renamed into place.
DirCommit(dir, ref) == [dir |-> dir \cup {ref}, err |-> "nil"]

\* filestore.Error.Wrap: nil stays nil.
ErrorWrap(err) == IF err = "nil" THEN "nil" ELSE "filestore error: " \o err

\* Store.Delete.
StoreDeleteStrict(dir, ref) ==
  IF ref \in dir THEN [dir |-> dir \ {ref}, err |-> "nil"]
  ELSE [dir |-> dir, err |-> ErrorWrap("file does not exist")]

StoreDelete(dir, ref) ==
  LET d == DirDelete(dir, ref)
  IN [dir |-> d.dir, err |-> ErrorWrap(d.err)]

\* Store.Open: a missing blob is reported with the unwrapped os error.
StoreOpen(dir, ref) ==
  LET o == DirOpen(dir, ref)
  IN IF o.err # "nil"
     THEN IF o.err = "file does not exist" THEN [file |-> "none", err |-> o.err]
          ELSE [file |-> "none", err |-> ErrorWrap(o.err)]
     ELSE [file |-> o.file, err |-> "nil"]

BlobCall(op, ref, before, after, err) ==
  [op |-> op, ref |-> ref, before |-> before, after |-> after, err |-> err]

InitBlobs ==
  /\ blobs = {}
  /\ bloblog = << >>

\* ------------------------------------------------------------ audit: download timeout
\* Time is counted in ticks, Second of them to a second.  Bound: how long a
\* node may take to answer a download.
Second == 10
MaxElapsed == 22
ShareSizes == {1, 2}
MinBytesPerSecond == {0, 1, 2, 3}
MinDownloadTimeouts == {0, 8, 15}

\* GetShare's timedCtx: ctx itself when minBytesPerSecond is 0, else ctx with a
\* timeout of maxTransferTime, which is the time the share takes at
\* minBytesPerSecond and at least minDownloadTimeout.
timedCtxShorterTimeout(shareSize, minBytesPerSecond, minDownloadTimeout) ==
  IF minBytesPerSecond > 0
  THEN LET maxTransferTime == (Second * shareSize) \div minBytesPerSecond
       IN [timed |-> TRUE,
           timeout |-> IF maxTransferTime > minDownloadTimeout
                       THEN minDownloadTimeout ELSE maxTransferTime]
  ELSE [timed |-> FALSE, timeout |-> 0]

timedCtx(shareSize, minBytesPerSecond, minDownloadTimeout) ==
  IF minBytesPerSecond > 0
  THEN LET maxTransferTime == (Second * shareSize) \div minBytesPerSecond
       IN [timed |-> TRUE,
           timeout |-> IF maxTransferTime < minDownloadTimeout
                       THEN minDownloadTimeout ELSE maxTransferTime]
  ELSE [timed |-> FALSE, timeout |-> 0]

GetShareCall(pc, shareSize, minBytesPerSecond, minDownloadTimeout, ctx, elapsed, err) ==
  [pc |-> pc, shareSize |-> shareSize, minBytesPerSecond |-> minBytesPerSecond,
   minDownloadTimeout |-> minDownloadTimeout, ctx |-> ctx, elapsed |-> elapsed,
   err |-> err]

InitGetShare ==
  getshare = GetShareCall("idle", 0, 0, 0, [timed |-> FALSE, timeout |-> 0], 0, "none")

\* ------------------------------------------------------------ sync2: pipe
\* Bounds: the pipeSize of a pipe and the length of the slice given to one
\* Write or Read.
MaxPipeSize == 3
MaxData == 2

\* The buffer of a pipe (memory, or a file at an offset): WriteAt stores the
\* bytes at the offset, ReadAt returns the bytes stored there.
BufferWriteAt(buffer, data, off) ==
  [i \in DOMAIN buffer |->
     IF i >= off /\ i < off + Len(data) THEN data[i - off + 1] ELSE buffer[i]]

BufferReadAt(buffer, n, off) == [i \in 1 .. n |-> buffer[off + i - 1]]

\* The pipe struct as NewPipeMemory makes it, with the number of
\* buffer.Close calls; NoPipe is before it is made.
Pipe(kind, open, limit) ==
  [made |-> TRUE, kind |-> kind, buffer |-> [i \in 0 .. (limit - 1) |-> 0],
   open |-> open, read |-> 0, write |-> 0, limit |-> limit,
   writerDone |-> FALSE, writerErr |-> "nil",
   readerDone |-> FALSE, readerErr |-> "nil", closed |-> 0]

NoPipe == [Pipe("none", 0, 0) EXCEPT !.made = FALSE]

\* NewPipeMemory(pipeSize).
NewPipeMemory(pipeSize) == Pipe("pipe", 2, pipeSize)

\* One pipe of NewMultiPipeMemory(pipeCount, pipeSize) or NewMultiPipeFile: its
\* buffer, limit and nodata.L are set, open is left at its zero value.
NewMultiPipe(pipeSize) == Pipe("multipipe", 0, pipeSize)

\* pipe.closeHalf: atomic.AddInt32(&pipe.open, -1) and buffer.Close at 0.
closeHalfAlways(p) == [p EXCEPT !.open = @ - 1, !.closed = @ + 1]

closeHalf(p) ==
  IF p.open - 1 = 0
  THEN [p EXCEPT !.open = @ - 1, !.closed = @ + 1]
  ELSE [p EXCEPT !.open = @ - 1]

\* The goroutines of the two ends, idle.
Writer(pc, data, toWrite, writeAt, n, err) ==
  [pc |-> pc, data |-> data, toWrite |-> toWrite, writeAt |-> writeAt,
   n |-> n, err |-> err]

Reader(pc, woken, len, toRead, readAt, got, n, err) ==
  [pc |-> pc, woken |-> woken, len |-> len, toRead |-> toRead,
   readAt |-> readAt, got |-> got, n |-> n, err |-> err]

\* pipe.nodata.Broadcast: a Read that waits in nodata.Wait is woken.
Broadcast(r) == IF r.pc = "wait" THEN [r EXCEPT !.woken = TRUE] ELSE r

\* pipeWriter.Write up to its first Unlock: it returns at once, or it goes on
\* to buffer.WriteAt with toWrite and writeAt.
writeCheck(p, data) ==
  IF p.readerDone THEN Writer("idle", << >>, 0, 0, 0, p.readerErr)
  ELSE IF p.writerDone THEN Writer("idle", << >>, 0, 0, 0, "ErrClosedPipe")
  ELSE IF p.limit - p.write = 0 THEN Writer("idle", << >>, 0, 0, 0, "ErrClosedPipe")
  ELSE Writer("writeat", data,
              IF Len(data) > p.limit - p.write THEN p.limit - p.write ELSE Len(data),
              p.write, 0, "none")

\* pipeReader.Read, its loop up to the first Unlock or nodata.Wait: it
\* returns at once, it waits, or it goes on to buffer.ReadAt.
readCheckFromStart(p, len) ==
  IF p.read >= p.write
  THEN IF p.writerDone THEN Reader("idle", FALSE, len, 0, 0, << >>, 0, p.writerErr)
       ELSE IF p.readerDone
       THEN Reader("idle", FALSE, len, 0, 0, << >>, 0, "ErrClosedPipe")
       ELSE IF p.read >= p.limit
       THEN Reader("idle", FALSE, len, 0, 0, << >>, 0, "EOF")
       ELSE Reader("wait", FALSE, len, 0, 0, << >>, 0, "none")
  ELSE Reader("readat", FALSE, len,
              IF len > p.write - p.read THEN p.write - p.read ELSE len,
              0, << >>, 0, "none")

readCheck(p, len) ==
  IF p.read >= p.write
  THEN IF p.writerDone THEN Reader("idle", FALSE, len, 0, 0, << >>, 0, p.writerErr)
       ELSE IF p.readerDone
       THEN Reader("idle", FALSE, len, 0, 0, << >>, 0, "ErrClosedPipe")
       ELSE IF p.read >= p.limit
       THEN Reader("idle", FALSE, len, 0, 0, << >>, 0, "EOF")
       ELSE Reader("wait", FALSE, len, 0, 0, << >>, 0, "none")
  ELSE Reader("readat", FALSE, len,
              IF len > p.write - p.read THEN p.write - p.read ELSE len,
              p.read, << >>, 0, "none")

InitPipe ==
  /\ pipe = NoPipe
  /\ pwriter = Writer("idle", << >>, 0, 0, 0, "none")
  /\ preader = Reader("idle", FALSE, 0, 0, 0, << >>, 0, "none")
  /\ phalf = [writer |-> FALSE, reader |-> FALSE,
              writerRet |-> "none", readerRet |-> "none"]
  /\ preceived = << >>

\* ------------------------------------------------------------ Spec: pointer store
MetaPath == "a"

InitMeta ==
  /\ pointers = [p \in Paths |-> NoPointer]
  /\ clock = 0
  /\ rpc = [w \in Workers |-> "idle"]
  /\ rref = [w \in Workers |-> NoPointer]
  /\ rlost = [w \in Workers |-> {}]
  /\ apc = [w \in Workers |-> "idle"]
  /\ aref = [w \in Workers |-> NoPointer]
  /\ ares = [w \in Workers |-> "none"]

InitVerify ==
  /\ vpc = "idle"
  /\ vpointer = NoPointer
  /\ vshares = << >>
  /\ vnodes = NoNodes
  /\ vcorrected = << >>
  /\ vremoved = "none"
  /\ vcancel = FALSE
  /\ vreport = NoReport
  /\ verr = "nil"

InitReverify ==
  /\ containment = {}
  /\ rvpc = "idle"
  /\ rvpieces = << >>
  /\ rvi = 1
  /\ ch = << >>
  /\ rvcount = 0
  /\ rvreport = Report({}, {}, {}, {})
  /\ rverr = {}
  /\ gpc = [n \in Nodes |-> "none"]
  /\ gpending = [n \in Nodes |-> NoPending]
  /\ gpointer = [n \in Nodes |-> NoPointer]
  /\ gshare = [n \in Nodes |-> NoShare]
  /\ gmsg = [n \in Nodes |-> NoResult]

Init ==
  /\ InitMeta /\ InitVerify /\ InitReverify /\ InitOverlay /\ InitQueue
  /\ InitSelect /\ InitOrders /\ InitObject /\ InitBlobs /\ InitGetShare
  /\ InitPipe

\* The order limits of an upload: Total nodes chosen by the overlay
\* (CreateSegmentOld -> FindStorageNodes), listed by piece number.
UploadLimits ==
  {l \in queryFilteredNodes({}, Total) : \A i \in 1 .. Total : l[i] = i}

\* A client commits an uploaded segment (Endpoint.CommitSegment).
Commit ==
  /\ clock < MaxClock
  /\ \E limits \in UploadLimits :
       \E res \in UploadResults(limits) :
          LET r == CommitSegment(pointers, MetaPath, res, limits, clock + 1)
          IN /\ r.err = "nil"
             /\ pointers' = r.db
             /\ clock' = clock + 1
  /\ UNCHANGED <<dbVars, rpc, rref, rlost, apc, aref, ares, verifyVars, reverifyVars>>

\* A client deletes the segment (metainfo.Service.Delete).
Delete ==
  /\ pointers[MetaPath].present
  /\ pointers' = MetainfoDelete(pointers, MetaPath)
  /\ UNCHANGED <<dbVars, clock, rpc, rref, rlost, apc, aref, ares, verifyVars, reverifyVars>>

\* segmentStore.Repair(ctx, path, lostPieces), its s.pdb.Get.
RepairRead(w) ==
  /\ rpc[w] = "idle"
  /\ apc[w] = "idle"
  /\ MetainfoGet(MetaPath).present
  /\ rref' = [rref EXCEPT ![w] = MetainfoGet(MetaPath)]
  /\ \E lostPieces \in {L \in SUBSET PieceNumbers : Cardinality(L) <= MaxLost} :
       rlost' = [rlost EXCEPT ![w] = lostPieces]
  /\ rpc' = [rpc EXCEPT ![w] = "read"]
  /\ UNCHANGED <<dbVars, pointers, clock, apc, aref, ares, verifyVars, reverifyVars>>

\* segmentStore.Repair from the node selection to its final
\* s.pdb.Put(ctx, path, pointer).
RepairPut(w) ==
  /\ rpc[w] = "read"
  /\ \E newNodes \in queryFilteredNodes(RepairExcluded(rref[w]),
                                       RepairAmount(rref[w], rlost[w])) :
       \E uploaded \in SUBSET RepairNilSlots(rref[w], rlost[w]) :
          LET r == Repair(rref[w], rlost[w], newNodes, uploaded)
          IN IF r.err = "nil"
             THEN /\ pointers' = MetainfoPut(pointers, MetaPath, r.pointer)
                  /\ rpc' = [rpc EXCEPT ![w] = "done"]
             ELSE /\ rpc' = [rpc EXCEPT ![w] = "failed"]
                  /\ UNCHANGED pointers
  /\ UNCHANGED <<dbVars, clock, rref, rlost, apc, aref, ares, verifyVars, reverifyVars>>

\* Verifier.Verify, its metainfo.Get.
AuditRead(w) ==
  /\ apc[w] = "idle"
  /\ rpc[w] = "idle"
  /\ MetainfoGet(MetaPath).present
  /\ aref' = [aref EXCEPT ![w] = MetainfoGet(MetaPath)]
  /\ apc' = [apc EXCEPT ![w] = "read"]
  /\ UNCHANGED <<dbVars, pointers, clock, rpc, rref, rlost, ares, verifyVars, reverifyVars>>

\* Verifier.Verify, its removeFailedPieces for the nodes that failed the audit.
AuditRemove(w) ==
  /\ apc[w] = "read"
  /\ \E failedNodes \in {F \in SUBSET PieceNodes(aref[w]) :
                           F # {} /\ Cardinality(F) <= MaxFailed} :
        LET r == removeFailedPieces(pointers, MetaPath, aref[w], failedNodes)
        IN /\ ares' = [ares EXCEPT ![w] = r[1]]
           /\ pointers' = r[2]
  /\ apc' = [apc EXCEPT ![w] = "done"]
  /\ UNCHANGED <<dbVars, clock, rpc, rref, rlost, aref, verifyVars, reverifyVars>>

Next ==
  \/ Commit
  \/ Delete
  \/ \E w \in Workers : RepairRead(w)
  \/ \E w \in Workers : RepairPut(w)
  \/ \E w \in Workers : AuditRead(w)
  \/ \E w \in Workers : AuditRemove(w)

Spec == Init /\ [][Next]_vars

RepairWriteOnlyIfUnchanged ==
  [][\A w \in Workers :
        (rpc[w] = "read" /\ rpc'[w] # "read" /\ pointers[MetaPath] # rref[w])
           => pointers' = pointers]_vars

VerifyStart ==
  /\ vpc = "idle"
  /\ vpointer' = MetainfoGet(MetaPath)
  /\ IF MetainfoGet(MetaPath).present
     THEN /\ vpc' = "downloaded"
          /\ UNCHANGED <<vreport, verr>>
     ELSE /\ vpc' = "done"
          /\ vreport' = NoReport
          /\ verr' = "deleted"
  /\ UNCHANGED <<dbVars, pointers, workerVars, vshares, vnodes, vcorrected, vremoved,
                 vcancel, reverifyVars>>

\* Verifier.Verify from CreateAuditOrderLimits and DownloadShares over
\* checkIfSegmentAltered and the classification loop to auditShares.
VerifyCheck ==
  /\ vpc = "downloaded"
  /\ \E oc \in AuditOutcomes(vpointer) :
       LET orderLimits == CreateAuditOrderLimits(vpointer, oc)
           offlineNodes0 == getOfflineNodes(vpointer, orderLimits, SkipOf(vpointer, oc))
           shares == DownloadShares(vpointer, orderLimits, oc)
           altered == checkIfSegmentAltered(pointers, MetaPath, vpointer)
           offlineNodes == offlineNodes0 \cup NodesClassified(shares, "offline")
           failedNodes == NodesClassified(shares, "failed")
           toAudit == sharesToAudit(shares)
           a == auditShares(toAudit)
       IN /\ vshares' = shares
          /\ IF altered # "nil"
             THEN /\ vreport' = Report({}, {}, offlineNodes0, {})
                  /\ verr' = altered
                  /\ vpc' = "done"
                  /\ UNCHANGED <<vnodes, vcorrected>>
             ELSE IF Cardinality(DOMAIN toAudit) < Required
             THEN /\ vreport' = Report({}, failedNodes, offlineNodes, {})
                  /\ verr' = "notenough"
                  /\ vpc' = "done"
                  /\ UNCHANGED <<vnodes, vcorrected>>
             ELSE IF a.err # "nil"
             THEN /\ vreport' = Report({}, failedNodes, offlineNodes, {})
                  /\ verr' = a.err
                  /\ vpc' = "done"
                  /\ UNCHANGED <<vnodes, vcorrected>>
             ELSE /\ vnodes' = [offline |-> offlineNodes,
                                failed |-> failedNodes
                                  \cup {shares[num].nodeId : num \in a.pieceNums},
                                contained |-> containedNodes(shares)]
                  /\ vcorrected' = a.corrected
                  /\ vpc' = "classified"
                  /\ UNCHANGED <<vreport, verr>>
  /\ UNCHANGED <<dbVars, pointers, workerVars, vpointer, vremoved, vcancel, reverifyVars>>

\* Verifier.Verify from removeFailedPieces to its return.
VerifyFinish ==
  /\ vpc = "classified"
  /\ LET r == removeFailedPieces(pointers, MetaPath, vpointer, vnodes.failed)
         successNodes == getSuccessNodes(vshares, vnodes.failed, vnodes.offline,
                                         vnodes.contained)
         pa == createPendingAudits(vnodes.contained, vcorrected, vpointer, MetaPath)
     IN /\ pointers' = r[2]
        /\ vremoved' = r[1]
        /\ IF pa.err # "nil"
           THEN /\ vreport' = Report(successNodes, vnodes.failed, vnodes.offline, {})
                /\ verr' = pa.err
           ELSE /\ vreport' = Report(successNodes, vnodes.failed, vnodes.offline,
                                     pa.pending)
                /\ verr' = "nil"
  /\ vpc' = "done"
  /\ UNCHANGED <<dbVars, workerVars, vpointer, vshares, vnodes, vcorrected, vcancel,
                 reverifyVars>>

\* The audited segment's other writers, while the audit has not returned: a
\* client that uploads or deletes it, and a second audit of the same segment.
Competitor == "w1"

NextVerify ==
  \/ VerifyStart
  \/ VerifyCheck
  \/ VerifyFinish
  \/ (vpc # "done" /\ Commit)
  \/ (vpc # "done" /\ Delete)
  \/ (vpc # "done" /\ AuditRead(Competitor))
  \/ (vpc # "done" /\ AuditRemove(Competitor))

SpecVerify == Init /\ [][NextVerify]_vars

\* ------------------------------------------------------------ audit claims
\* The lists of the returned Report that name the node.
ReportLists(n) ==
  (IF n \in vreport.successes THEN {"successes"} ELSE {})
  \cup (IF n \in vreport.fails THEN {"fails"} ELSE {})
  \cup (IF n \in vreport.offlines THEN {"offlines"} ELSE {})
  \cup (IF \E pa \in vreport.pendingAudits : pa.nodeId = n
        THEN {"pending_audits"} ELSE {})

\* C4: when Verify returns a Report without error, each contacted node of the
\* audited pointer appears in exactly one of the Report's successes, fails,
\* offlines and pending_audits.
EachContactedNodeInOneList ==
  (vpc = "done" /\ verr = "nil" /\ vreport.present) =>
     \A num \in DOMAIN vshares :
        Cardinality(ReportLists(vshares[num].nodeId)) = 1

\* The collections Verify holds the node of share num in after its loop and
\* auditShares.
NodeClasses(num) ==
  (IF vshares[num].nodeId \in vnodes.offline THEN {"offline"} ELSE {})
  \cup (IF vshares[num].nodeId \in vnodes.failed THEN {"failed"} ELSE {})
  \cup (IF num \in DOMAIN vnodes.contained THEN {"contained"} ELSE {})
  \cup (IF num \in DOMAIN vcorrected THEN {"audit"} ELSE {})

\* The class the rules give a download error: a dial timeout or a transport
\* error with status Unknown is offline, status NotFound is fail, status
\* DeadlineExceeded and every other transport or unknown error is contained.
\* A transport error with status NotFound matches two of the rules.
ClaimedClasses(err) ==
  IF err.transport /\ err.ctxDeadline THEN {"offline"}
  ELSE IF err.transport /\ err.code = "Unknown" THEN {"offline"}
  ELSE IF err.code = "NotFound"
  THEN IF err.transport THEN {"failed", "contained"} ELSE {"failed"}
  ELSE {"contained"}

\* C5: Verify classifies each node by the outcome of its share download: dial
\* timeout or RPC Unknown -> offline, RPC NotFound -> fail, RPC DeadlineExceeded
\* after connect -> contained, any other transport or unknown error ->
\* contained, share bytes returned -> candidate for verification.  Each node
\* gets the one class of its outcome.
ClassifiedByOutcome ==
  vpc = "classified" =>
     \A num \in DOMAIN vshares :
        IF vshares[num].err = NoError
        THEN "audit" \in NodeClasses(num) /\ NodeClasses(num) \subseteq {"audit", "failed"}
        ELSE /\ Cardinality(NodeClasses(num)) = 1
             /\ NodeClasses(num) \subseteq ClaimedClasses(vshares[num].err)

AlteredSegmentAborts ==
  [][(/\ vpc = "downloaded" /\ vpc' # "downloaded"
      /\ \/ ~pointers[MetaPath].present
         \/ pointers[MetaPath].creationDate # vpointer.creationDate)
     => /\ vpc' = "done"
        /\ verr' = "deleted"
        /\ vreport'.present
        /\ vreport'.successes = {} /\ vreport'.fails = {}
        /\ vreport'.pendingAudits = {}]_vars

\* An audit aborted at the re-fetch because the segment was replaced, although
\* one of its downloads came back with the share missing.
AbortedOnReplacedSegment ==
  /\ vpc = "done" /\ verr = "deleted"
  /\ vpointer.present
  /\ pointers[MetaPath].present
  /\ pointers[MetaPath].creationDate # vpointer.creationDate
  /\ \E num \in DOMAIN vshares : vshares[num].err.code = "NotFound"

\* C8: for every node classified contained in an audit whose stripe was
\* reconstructed, a PendingAudit is reported for that node whose expected hash
\* is the SHA-256 of the share re-encoded from the reconstructed stripe at that
\* node's piece number: the symbol that lies at that number on the line
\* through the corrected shares.
PendingAuditHasReencodedHash ==
  (vpc = "done" /\ verr = "nil") =>
     \A num \in DOMAIN vnodes.contained :
        \E pa \in vreport.pendingAudits :
           /\ pa.nodeId = vnodes.contained[num]
           /\ \E v \in Symbols :
                /\ pa.expectedShareHash = SHA256Hash(v)
                /\ \A i, j \in DOMAIN vcorrected :
                      i # j =>
                        ((v - vcorrected[i]) * (j - i)) % FieldSize
                          = ((vcorrected[j] - vcorrected[i]) * (num - i)) % FieldSize

\* An audit that returned a PendingAudit for a contained node.
PendingAuditReported ==
  /\ vpc = "done" /\ verr = "nil"
  /\ DOMAIN vnodes.contained # {}
  /\ vreport.pendingAudits # {}

\* ------------------------------------------------------------ SpecReverify: one reverification
\* An audit of the segment could not get the node's share: its pending audit is
\* recorded in containment, before Reverify starts or, for a node that is
\* contained already, while Reverify downloads the node's share.
Contain(n) ==
  /\ \/ rvpc = "idle"
     \/ rvpc \in {"spawn", "collect"} /\ gpc[n] = "analyze"
                                     /\ n \in Contained(containment)
  /\ pointers[MetaPath].present
  /\ findPiece(pointers[MetaPath], n).found
  /\ Cardinality(Contained(containment) \cup {n}) <= MaxContained
  /\ LET ptr == pointers[MetaPath]
         num == findPiece(ptr, n).pieceNum
         pa == createPendingAudits([i \in {num} |-> n],
                                   [i \in PieceNums(ptr) |-> StoredShare(ptr, i)],
                                   ptr, MetaPath)
     IN /\ pa.err = "nil"
        /\ \E a \in pa.pending : containment' = IncrementPending(containment, a)
  /\ UNCHANGED <<dbVars, pointers, workerVars, verifyVars, ch, mainVars, goVars>>

\* Another audit of the node succeeds while Reverify runs: its entry leaves
\* containment.
Release(n) ==
  /\ rvpc \in {"spawn", "collect"}
  /\ n \in Contained(containment)
  /\ gpc[n] = "analyze"
  /\ containment' = ContainmentDelete(containment, n)
  /\ UNCHANGED <<dbVars, pointers, workerVars, verifyVars, ch, mainVars, goVars>>

\* Verifier.Reverify up to the channel's creation.
RvStart ==
  /\ rvpc = "idle"
  /\ IF ~MetainfoGet(MetaPath).present
     THEN /\ rvpc' = "done"
          /\ rvreport' = NoReport
          /\ rverr' = {<<Nil, "deleted">>}
          /\ UNCHANGED rvpieces
     ELSE /\ rvpieces' = MetainfoGet(MetaPath).pieces
          /\ rvpc' = IF Len(MetainfoGet(MetaPath).pieces) = 0 THEN "done" ELSE "spawn"
          /\ UNCHANGED <<rvreport, rverr>>
  /\ UNCHANGED <<dbVars, pointers, workerVars, verifyVars, containment, ch, rvi, rvcount, goVars>>

\* One pass of Reverify's loop over the pieces: a node that is not in
\* containment gets a skipped result, sent by the loop itself, a contained node
\* gets a goroutine.
RvSpawn ==
  /\ rvpc = "spawn"
  /\ LET node == rvpieces[rvi].nodeId
     IN IF node \notin Contained(containment)
        THEN /\ Len(ch) < Len(rvpieces)
             /\ ch' = Append(ch, Result(node, "skipped", NoPending, "nil"))
             /\ UNCHANGED goVars
        ELSE /\ gpc' = [gpc EXCEPT ![node] = "get"]
             /\ gpending' = [gpending EXCEPT ![node] = ContainmentGet(containment, node)]
             /\ UNCHANGED <<ch, gpointer, gshare, gmsg>>
  /\ rvi' = rvi + 1
  /\ rvpc' = IF rvi = Len(rvpieces) THEN "collect" ELSE "spawn"
  /\ UNCHANGED <<dbVars, pointers, workerVars, verifyVars, containment, rvpieces, rvcount,
                 rvreport, rverr>>

\* One pass of Reverify's loop over the results.
RvCollect ==
  /\ rvpc = "collect"
  /\ Len(ch) > 0
  /\ rvreport' = collectResult(rvreport, Head(ch))
  /\ rverr' = combineErr(rverr, Head(ch))
  /\ ch' = Tail(ch)
  /\ rvcount' = rvcount + 1
  /\ rvpc' = IF rvcount + 1 = Len(rvpieces) THEN "done" ELSE "collect"
  /\ UNCHANGED <<dbVars, pointers, workerVars, verifyVars, containment, rvpieces, rvi, goVars>>

\* The goroutine of a contained node from its metainfo.Get to the search for
\* the node in the pending pointer.
GStart(n) ==
  /\ gpc[n] = "get"
  /\ LET pending == gpending[n]
         pendingPointer == MetainfoGet(pending.path)
     IN IF ~pendingPointer.present \/ pendingPointer.rootPieceId # pending.pieceId
        THEN /\ containment' = ContainmentDelete(containment, n)
             /\ gmsg' = [gmsg EXCEPT ![n] = Result(n, "skipped", NoPending, "nil")]
             /\ gpc' = [gpc EXCEPT ![n] = "send"]
             /\ UNCHANGED gpointer
        ELSE IF ~findPiece(pendingPointer, n).found
        THEN /\ gmsg' = [gmsg EXCEPT ![n] = Result(n, "erred", NoPending, "nil")]
             /\ gpc' = [gpc EXCEPT ![n] = "senderred"]
             /\ gpointer' = [gpointer EXCEPT ![n] = pendingPointer]
             /\ UNCHANGED containment
        ELSE /\ gpointer' = [gpointer EXCEPT ![n] = pendingPointer]
             /\ gpc' = [gpc EXCEPT ![n] = "download"]
             /\ UNCHANGED <<containment, gmsg>>
  /\ UNCHANGED <<dbVars, pointers, workerVars, verifyVars, ch, mainVars, gpending, gshare>>

\* The goroutine's CreateAuditOrderLimit and GetShare.
GDownload(n) ==
  /\ gpc[n] = "download"
  /\ \E lim \in LimitOutcomes : \E o \in ReverifyOutcomes :
       LET pieceNum == findPiece(gpointer[n], n).pieceNum
       IN IF lim # "ok"
          THEN /\ containment' = IF lim = "disqualified"
                                 THEN ContainmentDelete(containment, n)
                                 ELSE containment
               /\ gmsg' = [gmsg EXCEPT ![n] =
                             IF lim = "offline"
                             THEN Result(n, "offline", NoPending, "nil")
                             ELSE Result(n, "erred", NoPending, lim)]
               /\ gpc' = [gpc EXCEPT ![n] = "send"]
               /\ UNCHANGED gshare
          ELSE /\ gshare' = [gshare EXCEPT ![n] = GetShare(gpointer[n], pieceNum, n, o)]
               /\ gpc' = [gpc EXCEPT ![n] = "analyze"]
               /\ UNCHANGED <<containment, gmsg>>
  /\ UNCHANGED <<dbVars, pointers, workerVars, verifyVars, ch, mainVars, gpending, gpointer>>

\* The goroutine from its second look into containment over the analysis of
\* GetShare's outcome to the result it will send; for a failed audit up to
\* checkIfSegmentAltered, whose pointer it keeps for removeFailedPieces.
GAnalyze(n) ==
  /\ gpc[n] = "analyze"
  /\ LET pending == gpending[n]
         status == reverifyShare(pointers, pending, gpointer[n], gshare[n])
     IN IF n \notin Contained(containment)
        THEN /\ gmsg' = [gmsg EXCEPT ![n] = Result(n, "skipped", NoPending, "nil")]
             /\ gpc' = [gpc EXCEPT ![n] = "send"]
             /\ UNCHANGED gpointer
        ELSE /\ gmsg' = [gmsg EXCEPT ![n] =
                           Result(n, status,
                                  IF status = "contained" THEN pending ELSE NoPending,
                                  "nil")]
             /\ IF status = "failed"
                THEN /\ gpc' = [gpc EXCEPT ![n] = "remove"]
                     /\ gpointer' = [gpointer EXCEPT ![n] = MetainfoGet(pending.path)]
                ELSE /\ gpc' = [gpc EXCEPT ![n] = "send"]
                     /\ UNCHANGED gpointer
  /\ UNCHANGED <<dbVars, pointers, workerVars, verifyVars, containment, ch, mainVars, gpending,
                 gshare>>

\* The goroutine's removeFailedPieces with the pointer checkIfSegmentAltered
\* returned; its error is only logged.
GRemove(n) ==
  /\ gpc[n] = "remove"
  /\ pointers' = removeFailedPieces(pointers, gpending[n].path, gpointer[n], {n})[2]
  /\ gpc' = [gpc EXCEPT ![n] = "send"]
  /\ UNCHANGED <<dbVars, workerVars, verifyVars, containment, ch, mainVars, gpending,
                 gpointer, gshare, gmsg>>

\* A send of the goroutine on the channel; it waits while the channel is full.
\* The goroutine of a node that is no longer in its pointer sends twice.
GSend(n) ==
  /\ gpc[n] \in {"send", "senderred", "sendskipped"}
  /\ Len(ch) < Len(rvpieces)
  /\ ch' = Append(ch, gmsg[n])
  /\ gpc' = [gpc EXCEPT ![n] = CASE gpc[n] = "send" -> "done"
                                 [] gpc[n] = "senderred" -> "delete"
                                 [] gpc[n] = "sendskipped" -> "dropped"]
  /\ gshare' = [gshare EXCEPT ![n] = NoShare]
  /\ UNCHANGED <<dbVars, pointers, workerVars, verifyVars, containment, mainVars, gpending,
                 gpointer, gmsg>>

\* The goroutine of a node that is no longer in its pointer, between its two
\* sends: containment.Delete.
GDelete(n) ==
  /\ gpc[n] = "delete"
  /\ containment' = ContainmentDelete(containment, n)
  /\ gmsg' = [gmsg EXCEPT ![n] = Result(n, "skipped", NoPending, "nil")]
  /\ gpc' = [gpc EXCEPT ![n] = "sendskipped"]
  /\ UNCHANGED <<dbVars, pointers, workerVars, verifyVars, ch, mainVars, gpending,
                 gpointer, gshare>>

NextReverify ==
  \/ RvStart
  \/ RvSpawn
  \/ RvCollect
  \/ \E n \in Nodes : GStart(n)
  \/ \E n \in Nodes : GDownload(n)
  \/ \E n \in Nodes : GAnalyze(n)
  \/ \E n \in Nodes : GRemove(n)
  \/ \E n \in Nodes : GSend(n)
  \/ \E n \in Nodes : GDelete(n)
  \/ \E n \in Nodes : Contain(n)
  \/ \E n \in Nodes : Release(n)
  \/ (rvpc # "done" /\ Commit)
  \/ (rvpc \in {"spawn", "collect"} /\ Delete)
  \/ (rvpc \in {"spawn", "collect"} /\ AuditRead(Competitor))
  \/ (rvpc \in {"spawn", "collect"} /\ AuditRemove(Competitor))

SpecReverify == Init /\ [][NextReverify]_vars

\* ------------------------------------------------------------ reverify claims
\* The segment of the node's pending audit was deleted or replaced since the
\* goroutine read its pointer.
SegmentAlteredSince(n) ==
  \/ ~pointers[gpending[n].path].present
  \/ pointers[gpending[n].path].creationDate # gpointer[n].creationDate

HashMatches(n) == SHA256Hash(gshare[n].data) = gpending[n].expectedShareHash

\* The goroutine of node n goes from GetShare's outcome to its result, the
\* node's pending audit still being in containment.
Resolves(n) ==
  /\ gpc[n] = "analyze"
  /\ gpc'[n] # "analyze"
  /\ n \in Contained(containment)

\* C9 as stated: Reverify resolves a contained node by its share: a hash equal
\* to the expected hash gives success, a different hash gives fail, and a
\* download that times out leaves the node contained with its pending audit.
ReverifyMismatchFails ==
  [][\A n \in Nodes :
        Resolves(n) =>
          /\ (gshare[n].err = NoError /\ HashMatches(n))
                => gmsg'[n].status = "success"
          /\ (gshare[n].err = NoError /\ ~HashMatches(n))
                => gmsg'[n].status = "failed"
          /\ gshare[n].err.code = "DeadlineExceeded"
                => /\ gmsg'[n].status = "contained"
                   /\ gmsg'[n].pendingAudit = gpending[n]
                   /\ containment' = containment]_vars

\* C9: Reverify resolves a contained node whose pending audit is still in
\* containment by its share: a hash equal to the expected hash gives success;
\* a different hash gives fail if the segment is unaltered and success if the
\* segment was deleted or replaced meanwhile; a download that times out leaves
\* the node contained with its existing pending audit.
ReverifyResolvesByHash ==
  [][\A n \in Nodes :
        Resolves(n) =>
          /\ (gshare[n].err = NoError /\ HashMatches(n))
                => gmsg'[n].status = "success"
          /\ (gshare[n].err = NoError /\ ~HashMatches(n) /\ ~SegmentAlteredSince(n))
                => gmsg'[n].status = "failed"
          /\ (gshare[n].err = NoError /\ ~HashMatches(n) /\ SegmentAlteredSince(n))
                => gmsg'[n].status = "success"
          /\ gshare[n].err.code = "DeadlineExceeded"
                => /\ gmsg'[n].status = "contained"
                   /\ gmsg'[n].pendingAudit = gpending[n]
                   /\ containment' = containment]_vars

\* A goroutine has a failed result for a share whose hash differs from the
\* expected one.
ResolvedByMismatch ==
  \E n \in Nodes :
     /\ gpc[n] \in {"remove", "send"}
     /\ gshare[n] # NoShare
     /\ gshare[n].err = NoError
     /\ ~HashMatches(n)
     /\ gmsg[n].status = "failed"

PieceSet(ptr) == {ptr.pieces[i] : i \in DOMAIN ptr.pieces}

\* C16: a repair asks for replacement nodes that exclude every node id
\* currently in the pointer, so the pointer a repair writes never gains a
\* piece on a node that already held a piece of the segment.
RepairGainsNoPieceOnHolder ==
  [][\A w \in Workers :
        (rpc[w] = "read" /\ rpc'[w] = "done" /\ pointers[MetaPath].present)
           => \A p \in PieceSet(pointers'[MetaPath]) \ PieceSet(pointers[MetaPath]) :
                 p.nodeId \notin PieceNodes(pointers[MetaPath])]_vars

\* A repair whose pointer write succeeded: what it read, what it was told is
\* lost, and the slots it had to fill.
RepairWrote(w) == rpc[w] = "read" /\ rpc'[w] = "done"
HealthyPieces(w) ==
  {RemotePiece(i, lookupAndAlignNodes(rref[w])[i]) :
     i \in PieceNumbers \ RepairNilSlots(rref[w], rlost[w])}

\* C17 as stated: after a successful repair the pointer keeps every healthy
\* piece at its piece number and node and every lost piece number is assigned
\* to a newly selected node, so the set of piece numbers is preserved.
RepairPreservesPieceNums ==
  [][\A w \in Workers :
        RepairWrote(w)
           => /\ HealthyPieces(w) \subseteq PieceSet(pointers'[MetaPath])
              /\ \A i \in rlost[w] \cap PieceNums(rref[w]) :
                    \E p \in PieceSet(pointers'[MetaPath]) :
                       p.pieceNum = i /\ p.nodeId \notin PieceNodes(rref[w])
              /\ PieceNums(pointers'[MetaPath]) = PieceNums(rref[w])]_vars

\* C17 as amended: after a successful repair the pointer keeps every healthy
\* piece of the pointer the repair read at its piece number and node; every
\* other piece it lists is on a lost or absent piece number, on a newly
\* selected node that held no piece of the pointer read; a lost or absent
\* piece number whose upload failed is left out.
RepairKeepsHealthyFillsUploaded ==
  [][\A w \in Workers :
        RepairWrote(w)
           => /\ HealthyPieces(w) \subseteq PieceSet(pointers'[MetaPath])
              /\ \A p \in PieceSet(pointers'[MetaPath]) \ HealthyPieces(w) :
                    /\ p.pieceNum \in RepairNilSlots(rref[w], rlost[w])
                    /\ p.nodeId \in Nodes \ PieceNodes(rref[w])
              /\ UniquePieceNums(pointers'[MetaPath])
              /\ PieceNums(pointers'[MetaPath]) \subseteq PieceNumbers]_vars

\* A repair has replaced a lost piece by one on a new node and kept the
\* healthy pieces of the pointer it read.
RepairReplacedLostPiece ==
  \E w \in Workers :
     /\ rpc[w] = "done"
     /\ pointers[MetaPath].present
     /\ HealthyPieces(w) \subseteq PieceSet(pointers[MetaPath])
     /\ HealthyPieces(w) # {}
     /\ \E i \in rlost[w] : \E p \in PieceSet(pointers[MetaPath]) :
           p.pieceNum = i /\ p.nodeId \notin PieceNodes(rref[w])

\* ------------------------------------------------------------ SpecOverlay: reputation
\* overlaycache.Create(ctx, nodeID, startingStats) that returns no error.
CreateNode(n, startingStats) ==
  LET c == Create(dbNodes, n, startingStats)
  IN /\ c.err = "nil"
     /\ dbNodes' = c.db
     /\ ledger' = [ledger EXCEPT ![n] = c.db[n]]
     /\ UNCHANGED <<storeVars, queueVars, extVars, ocache, upc, ureq, uread, ures>>

\* The overlay cache stores a node: CreateEntryIfNotExists for its stats, then
\* overlaycache.Update with those stats as info.Reputation.
CachePut(n) ==
  LET e == CreateEntryIfNotExists(dbNodes, n)
      u == Update(ocache, [id |-> n, reputation |-> e.stats])
  IN /\ e.err = "nil"
     /\ u.err = "nil"
     /\ dbNodes' = e.db
     /\ ledger' = IF dbNodes[n].present THEN ledger
                  ELSE [ledger EXCEPT ![n] = e.db[n]]
     /\ ocache' = u.oc
     /\ UNCHANGED <<storeVars, queueVars, extVars, upc, ureq, uread, ures>>

\* An updater begins a call: a contained outcome makes no call; otherwise
\* cache.db.Open and tx.Get_Node_By_Id, which fails when the node has no row.
UpdateBegin(u) ==
  /\ upc[u] = "idle"
  /\ \E n \in StatNodes : \E call \in UpdateCalls(n) :
       IF call.op = "none"
       THEN /\ ures' = [ures EXCEPT ![u] = "skipped"]
            /\ UNCHANGED <<upc, ureq, uread>>
       ELSE IF ~dbNodes[n].present
       THEN /\ ures' = [ures EXCEPT ![u] = "error"]
            /\ UNCHANGED <<upc, ureq, uread>>
       ELSE /\ WithinCap(ledger[n], call)
            /\ upc' = [upc EXCEPT ![u] = "read"]
            /\ ureq' = [ureq EXCEPT ![u] = call]
            /\ uread' = [uread EXCEPT ![u] = dbNodes[n]]
            /\ ures' = [ures EXCEPT ![u] = "none"]
  /\ UNCHANGED <<storeVars, queueVars, extVars, dbNodes, ocache, ledger>>

\* The call's tx.Update_Node_By_Id with the updateFields computed from the row
\* read, and tx.Commit; or the statement fails and the transaction rolls back.
UpdateCommit(u) ==
  /\ upc[u] = "read"
  /\ \/ /\ dbNodes' = [dbNodes EXCEPT ![ureq[u].node] =
                         Update_Node_By_Id(@, CallFields(uread[u], ureq[u]))]
        /\ ledger' = [ledger EXCEPT ![ureq[u].node] =
                        Update_Node_By_Id(@, CallFields(@, ureq[u]))]
        /\ ures' = [ures EXCEPT ![u] = "ok"]
     \/ /\ ures' = [ures EXCEPT ![u] = "error"]
        /\ UNCHANGED <<dbNodes, ledger>>
  /\ upc' = [upc EXCEPT ![u] = "idle"]
  /\ ureq' = [ureq EXCEPT ![u] = NoCall]
  /\ uread' = [uread EXCEPT ![u] = NoRow]
  /\ UNCHANGED <<storeVars, queueVars, extVars, ocache>>

NextOverlay ==
  \/ \E n \in StatNodes : \E startingStats \in StartingStats :
        CreateNode(n, startingStats)
  \/ \E n \in StatNodes : CachePut(n)
  \/ \E u \in Updaters : UpdateBegin(u)
  \/ \E u \in Updaters : UpdateCommit(u)

SpecOverlay == Init /\ [][NextOverlay]_vars

\* ------------------------------------------------------------ reputation claims
\* An updater's transaction commits on this step.
Commits(u) == upc[u] = "read" /\ upc'[u] = "idle" /\ ures'[u] = "ok"

\* C12: for every node, after any sequence of node creations and reputation
\* updates, 0 <= audit_success_count <= audit_count and
\* 0 <= uptime_success_count <= uptime_count, in the nodes table and in the
\* reputation columns of the overlay cache.
ReputationCountsOrdered ==
  \A n \in StatNodes :
     /\ dbNodes[n].present
          => /\ 0 <= dbNodes[n].auditSuccessCount
             /\ dbNodes[n].auditSuccessCount <= dbNodes[n].totalAuditCount
             /\ 0 <= dbNodes[n].uptimeSuccessCount
             /\ dbNodes[n].uptimeSuccessCount <= dbNodes[n].totalUptimeCount
     /\ ocache[n].present
          => /\ 0 <= ocache[n].auditSuccessCount
             /\ ocache[n].auditSuccessCount <= ocache[n].auditCount
             /\ 0 <= ocache[n].uptimeSuccessCount
             /\ ocache[n].uptimeSuccessCount <= ocache[n].uptimeCount

\* A node created with counts above zero, updated since by a failed audit and
\* a successful contact, and stored in the overlay cache after the update.
NodeCreatedUpdatedCached ==
  \E n \in StatNodes :
     /\ dbNodes[n].present
     /\ dbNodes[n].auditSuccessCount = 1
     /\ dbNodes[n].totalAuditCount = 2
     /\ dbNodes[n].uptimeSuccessCount = 1
     /\ dbNodes[n].totalUptimeCount = 1
     /\ ocache[n].present
     /\ ocache[n].auditCount = 2
     /\ \E u \in Updaters : ures[u] = "ok"

\* C13: applying an audit outcome to a node changes its counters: success
\* raises audit_success_count and audit_count by 1 each; fail raises
\* audit_count by 1 and leaves audit_success_count; offline raises
\* uptime_count by 1 and leaves uptime_success_count; contained changes no
\* counter.
OutcomeChangesCounters ==
  [][\A u \in Updaters : \A n \in StatNodes :
        /\ (Commits(u) /\ ureq[u] = ApplyOutcome(n, "success"))
              => /\ dbNodes'[n].auditSuccessCount = dbNodes[n].auditSuccessCount + 1
                 /\ dbNodes'[n].totalAuditCount = dbNodes[n].totalAuditCount + 1
        /\ (Commits(u) /\ ureq[u] = ApplyOutcome(n, "fail"))
              => /\ dbNodes'[n].auditSuccessCount = dbNodes[n].auditSuccessCount
                 /\ dbNodes'[n].totalAuditCount = dbNodes[n].totalAuditCount + 1
        /\ (Commits(u) /\ ureq[u] = ApplyOutcome(n, "offline"))
              => /\ dbNodes'[n].uptimeSuccessCount = dbNodes[n].uptimeSuccessCount
                 /\ dbNodes'[n].totalUptimeCount = dbNodes[n].totalUptimeCount + 1
        /\ (ures'[u] = "skipped" /\ ures[u] # "skipped")
              => dbNodes' = dbNodes]_vars

NoIncrementLost ==
  \A n \in StatNodes : dbNodes[n] = ledger[n]

\* ------------------------------------------------------------ SpecQueue: repair queue
\* repairQueue.Enqueue(seg): the row is inserted; a row with the same info may
\* instead be refused by the table, and Enqueue returns that error.
Enqueue(seg) ==
  /\ nextId <= MaxEnqueue
  /\ \/ /\ injured' = Create_Injuredsegment(injured, nextId, Marshal(seg))
        /\ enqueued' = Append(enqueued, seg)
     \/ /\ \E i \in DOMAIN injured : injured[i].info = Marshal(seg)
        /\ UNCHANGED <<injured, enqueued>>
  /\ nextId' = nextId + 1
  /\ UNCHANGED <<storeVars, overlayVars, extVars, qpc, qres, qseen, qout>>

\* repairQueue.Dequeue, its r.db.Open and tx.First_Injuredsegment.
DequeueFirst(d) ==
  /\ qpc[d] = "idle"
  /\ qseen' = [qseen EXCEPT ![d] = Len(enqueued)]
  /\ LET res == First_Injuredsegment(injured)
     IN IF res = NilRow
        THEN /\ qout' = [qout EXCEPT ![d] = DequeueResult("ErrEmptyQueue", NoSegment)]
             /\ qpc' = [qpc EXCEPT ![d] = "done"]
             /\ UNCHANGED qres
        ELSE /\ qres' = [qres EXCEPT ![d] = res]
             /\ qpc' = [qpc EXCEPT ![d] = "first"]
             /\ UNCHANGED qout
  /\ UNCHANGED <<storeVars, overlayVars, extVars, injured, nextId, enqueued>>

\* repairQueue.Dequeue from tx.Delete_Injuredsegment_By_Info(res.Info) to
\* tx.Commit.
DequeueDelete(d) ==
  /\ qpc[d] = "first"
  /\ LET r == Delete_Injuredsegment_By_Info(injured, qres[d].info)
     IN IF ~r.deleted
        THEN /\ qout' = [qout EXCEPT ![d] =
                           DequeueResult("Injured segment not deleted", NoSegment)]
             /\ UNCHANGED injured
        ELSE /\ qout' = [qout EXCEPT ![d] =
                           DequeueResult("nil", Unmarshal(qres[d].info))]
             /\ injured' = r.rows
  /\ qpc' = [qpc EXCEPT ![d] = "done"]
  /\ UNCHANGED <<storeVars, overlayVars, extVars, nextId, enqueued, qres, qseen>>

\* The repairer's worker: the segment a Dequeue returned is repaired by the
\* goroutine that dequeued it (up to Config.MaxRepair of them run at once);
\* when the repair returns, the worker is free to Dequeue again.
RepairerFinish(d) ==
  /\ qpc[d] = "done"
  /\ qpc' = [qpc EXCEPT ![d] = "idle"]
  /\ qout' = [qout EXCEPT ![d] = NoDequeue]
  /\ qres' = [qres EXCEPT ![d] = NilRow]
  /\ UNCHANGED <<storeVars, overlayVars, extVars, injured, nextId, enqueued, qseen>>

NextQueue ==
  \/ \E seg \in InjuredSegments : Enqueue(seg)
  \/ \E d \in Dequeuers : DequeueFirst(d)
  \/ \E d \in Dequeuers : DequeueDelete(d)
  \/ \E d \in Dequeuers : RepairerFinish(d)

SpecQueue == Init /\ [][NextQueue]_vars

\* ------------------------------------------------------------ repair queue claims
\* C18: when N distinct segments have been enqueued and N Dequeue calls then
\* run concurrently, every call succeeds and each segment is returned by
\* exactly one call.
ParallelDequeuesAllSucceed ==
  (/\ Len(enqueued) = Cardinality(Dequeuers)
   /\ \A i, j \in DOMAIN enqueued : i # j => enqueued[i] # enqueued[j]
   /\ \A d \in Dequeuers : qpc[d] = "done" /\ qseen[d] = Len(enqueued))
     => /\ \A d \in Dequeuers : qout[d].err = "nil"
        /\ \A i \in DOMAIN enqueued :
              Cardinality({d \in Dequeuers : qout[d].seg = enqueued[i]}) = 1

\* C19: the repair queue is FIFO: a Dequeue that succeeds returns the segment
\* enqueued first among those still queued, and Peekqueue lists the queued
\* segments in the order of their enqueue.
QueueIsFifo ==
  [][/\ \A d \in Dequeuers :
          (qpc[d] = "first" /\ qpc'[d] = "done" /\ qout'[d].err = "nil")
             => qout'[d].seg = Unmarshal(injured[1].info)
     /\ \A limit \in 1 .. MaxEnqueue :
          LET peek == Peekqueue(injured, limit)
          IN /\ Len(peek) = Min(limit, Len(injured))
             /\ \A i \in DOMAIN peek : peek[i] = Unmarshal(injured[i].info)
     /\ \A i, j \in DOMAIN injured : i < j => injured[i].id < injured[j].id]_vars

\* C20: the repair queue is deduplicated by pointer path: no two queue entries
\* name the same path.
QueueDedupByPath ==
  \A i, j \in DOMAIN injured :
     i # j => Unmarshal(injured[i].info).path # Unmarshal(injured[j].info).path


\* A worker is repairing the segment its Dequeue returned until it finishes.
Repairing(d) == qpc[d] = "done" /\ qout[d].err = "nil"

\* C21: at most one repair worker works on a given segment at any time: two
\* workers that each hold a segment returned by Dequeue, and have not yet
\* finished repairing it, hold segments of different paths.
AtMostOneRepairerPerSegment ==
  \A d1, d2 \in Dequeuers :
     (d1 # d2 /\ Repairing(d1) /\ Repairing(d2))
        => qout[d1].seg.path # qout[d2].seg.path


\* ------------------------------------------------------------ SpecSelect: node selection
\* overlaycache.Update: the row of the node is created or replaced.
CacheUpdate(n, row) ==
  /\ ocNodes' = [ocNodes EXCEPT ![n] = row]
  /\ UNCHANGED <<storeVars, overlayVars, queueVars, ioVars, orderVars, objectVars, fres>>

\* CreateSegmentOld / CreateSegment, their overlay.FindStorageNodes.
FindNodes(req) ==
  /\ \E res \in FindStorageNodes(ocNodes, req) : fres' = res
  /\ UNCHANGED <<storeVars, overlayVars, queueVars, ioVars, orderVars, objectVars, ocNodes>>

NextSelect ==
  \/ \E n \in SelNodes, row \in CacheNodes : CacheUpdate(n, row)
  \/ \E count \in 0 .. MaxRequested, excluded \in SUBSET SelNodes :
        FindNodes(FindStorageNodesRequest(count, MaxPieceSize, excluded))

SpecSelect == Init /\ [][NextSelect]_vars


\* ------------------------------------------------------------ node selection claims
\* A FindStorageNodes call returns in this step.
Found == fres' # fres

Eligible(cache, req) ==
  {n \in SelNodes :
     /\ cache[n].present
     /\ n \notin req.ExcludedNodes
     /\ cache[n].node_type = "storage"
     /\ cache[n].free_disk >= req.FreeDisk
     /\ cache[n].free_bandwidth >= req.FreeBandwidth
     /\ \/ cache[n].audit_count < NodeSelectionConfig.NewNodeAuditThreshold
        \/ /\ cache[n].audit_count >= NodeSelectionConfig.AuditCount
           /\ cache[n].audit_success_ratio >= NodeSelectionConfig.AuditSuccessRatio
           /\ cache[n].uptime_count >= NodeSelectionConfig.UptimeCount
           /\ cache[n].audit_uptime_ratio >= NodeSelectionConfig.UptimeRatio}

SubmitOrder(rba) ==
  /\ bwnow < MaxSubmit
  /\ bwnow' = bwnow + 1
  /\ LET r == SaveOrder(bwagreements, rba, bwnow')
     IN /\ bwagreements' = r.rows
        /\ bwlog' = Append(bwlog, [order |-> rba, err |-> r.err])
  /\ UNCHANGED <<storeVars, overlayVars, queueVars, ioVars, selectVars, objectVars, bwtotals>>

\* The rollup reads the totals of a window: GetTotals.
ReadTotals(from, to) ==
  /\ from <= to
  /\ bwtotals' = [called |-> TRUE, from |-> from, to |-> to,
                  totals |-> GetTotals(bwagreements, from, to)]
  /\ UNCHANGED <<storeVars, overlayVars, queueVars, ioVars, selectVars, objectVars,
                 bwagreements, bwnow, bwlog>>

NextOrders ==
  \/ \E rba \in Orders : SubmitOrder(rba)
  \/ \E from \in 0 .. MaxSubmit, to \in 0 .. MaxSubmit : ReadTotals(from, to)

SpecOrders == Init /\ [][NextOrders]_vars

\* ------------------------------------------------------------ settlement claims
\* The first submission of each serial number and storage node.
FirstSubmissions ==
  {i \in DOMAIN bwlog :
     \A j \in 1 .. (i - 1) : Serialnum(bwlog[j].order) # Serialnum(bwlog[i].order)}

RECURSIVE SumOrders(_)
SumOrders(idx) ==
  IF idx = {} THEN 0
  ELSE LET i == CHOOSE x \in idx : TRUE
       IN bwlog[i].order.Total + SumOrders(idx \ {i})

Resubmission ==
  /\ Len(bwlog') = Len(bwlog) + 1
  /\ \E r \in bwagreements : r.serialnum = Serialnum(bwlog'[Len(bwlog')].order)

\* C26: saving a Receipt is idempotent: re-submitting a Receipt whose serial
\* and storage node id were already saved succeeds as a no-op.
ResubmissionSucceedsAsNoOp ==
  [][Resubmission =>
       /\ bwlog'[Len(bwlog')].err = "nil"
       /\ bwagreements' = bwagreements]_vars

\* C26, amended: re-submitting a Receipt whose serial and storage node id were
\* already saved is a no-op on the saved rows and returns an error.
ResubmissionRejectedAsNoOp ==
  [][Resubmission =>
       /\ bwlog'[Len(bwlog')].err = "unique violation"
       /\ bwagreements' = bwagreements]_vars

\* The same order was saved and then submitted again.
OrderResubmitted ==
  \E i, j \in DOMAIN bwlog :
     /\ i < j
     /\ bwlog[i].order = bwlog[j].order
     /\ bwlog[i].err = "nil"
     /\ bwlog[j].err # "none"


\* ------------------------------------------------------------ SpecObject: object commit
\* Endpoint.CommitSegment, its CreatePath and metainfo.Put for segment index.
CommitSegmentPut(index, upload) ==
  /\ LET p == CreatePath(index)
     IN /\ p.err = "nil"
        /\ osegs' = [osegs EXCEPT ![p.path] =
                       SegmentPointer(upload, "segment", "segment meta")]
  /\ UNCHANGED <<storeVars, overlayVars, queueVars, ioVars, selectVars, orderVars,
                 copc, cidx, clast, cerr>>

\* Endpoint.CommitObject up to its loop.
CommitObjectBegin ==
  /\ copc \in {"idle", "done"}
  /\ copc' = "probe"
  /\ cidx' = 0
  /\ clast' = NoLastSegment
  /\ cerr' = "none"
  /\ UNCHANGED <<storeVars, overlayVars, queueVars, ioVars, selectVars, orderVars, osegs>>

\* Endpoint.CommitObject, one turn of its loop: CreatePath(segmentIndex) and
\* metainfo.GetWithBytes; the first missing key ends the loop.
CommitObjectProbe ==
  /\ copc = "probe"
  /\ LET p == CreatePath(cidx)
     IN IF osegs[p.path].present
        THEN /\ clast' = [path |-> p.path, pointer |-> osegs[p.path]]
             /\ cidx' = cidx + 1
             /\ UNCHANGED <<copc, cerr>>
        ELSE /\ IF clast.pointer.present
                THEN copc' = "delete" /\ UNCHANGED cerr
                ELSE copc' = "done" /\ cerr' = "NotFound"
             /\ UNCHANGED <<clast, cidx>>
  /\ UNCHANGED <<storeVars, overlayVars, queueVars, ioVars, selectVars, orderVars, osegs>>

\* Endpoint.CommitObject, its metainfo.Delete(lastSegmentPath,
\* lastSegmentPointerBytes).
CommitObjectDelete ==
  /\ copc = "delete"
  /\ LET r == MetainfoDeleteIfUnchanged(osegs, clast.path, clast.pointer)
     IN /\ osegs' = r.db
        /\ IF r.err = "nil"
           THEN copc' = "put" /\ UNCHANGED cerr
           ELSE copc' = "done" /\ cerr' = "Internal"
  /\ UNCHANGED <<storeVars, overlayVars, queueVars, ioVars, selectVars, orderVars,
                 cidx, clast>>

\* Endpoint.CommitObject, its CreatePath(-1) and metainfo.Put of the last
\* segment pointer with the stream's redundancy and metadata; a Put that the
\* database fails leaves the keys as they are and is answered with Internal.
CommitObjectPut ==
  /\ copc = "put"
  /\ \E err \in {"nil", "put failed"} :
       LET p == CreatePath(0 - 1)
       IN IF err = "nil"
          THEN /\ osegs' = [osegs EXCEPT ![p.path] =
                              [clast.pointer EXCEPT !.Redundancy = "stream",
                                                    !.Metadata = "stream meta"]]
               /\ cerr' = "nil"
          ELSE /\ osegs' = osegs
               /\ cerr' = "Internal"
  /\ copc' = "done"
  /\ UNCHANGED <<storeVars, overlayVars, queueVars, ioVars, selectVars, orderVars,
                 cidx, clast>>

NextObject ==
  \/ \E index \in 0 .. MaxSegmentIndex, upload \in 1 .. MaxUploads :
        CommitSegmentPut(index, upload)
  \/ CommitObjectBegin
  \/ CommitObjectProbe
  \/ CommitObjectDelete
  \/ CommitObjectPut

SpecObject == Init /\ [][NextObject]_vars

PieceHashesVerifiedNeverReset ==
  [][\A path \in Paths :
        /\ (pointers'[path].verified /\ ~pointers[path].verified)
              => clock' = clock + 1
        /\ (pointers[path].verified /\ pointers'[path].present)
              => pointers'[path].verified]_vars


\* ------------------------------------------------------------ inconclusive audits
\* The shares of the audit that were downloaded without an error, and the
\* nodes whose download failed at the dial.
DownloadedShares == {num \in DOMAIN vshares : vshares[num].err = NoError}

DialFailed(err) ==
  err # NoError /\ err.transport /\ (err.ctxDeadline \/ err.code = "Unknown")

\* C29: if fewer than k shares were downloaded successfully, the audit is
\* inconclusive: Verify returns an error and a Report without successes (and
\* without pending audits); unless the segment was deleted or altered
\* meanwhile, the error is ErrNotEnoughShares and the Report names the nodes
\* whose piece was not found as failed and the nodes without an order limit or
\* whose dial failed as offline.
InconclusiveAuditReportsNoSuccess ==
  (vpc = "done" /\ Cardinality(DownloadedShares) < Required)
     => /\ vreport.successes = {}
        /\ vreport.pendingAudits = {}
        /\ verr # "nil"
        /\ verr # "deleted"
             => /\ verr = "notenough"
                /\ vreport.present
                /\ vreport.fails =
                     {vshares[num].nodeId :
                        num \in {n \in DOMAIN vshares :
                                   /\ vshares[n].err # NoError
                                   /\ ~DialFailed(vshares[n].err)
                                   /\ vshares[n].err.code = "NotFound"}}
                /\ {vshares[num].nodeId :
                      num \in {n \in DOMAIN vshares : DialFailed(vshares[n].err)}}
                     \subseteq vreport.offlines
                /\ vreport.offlines \subseteq
                     {vshares[num].nodeId :
                        num \in {n \in DOMAIN vshares : DialFailed(vshares[n].err)}}
                     \cup (PieceNodes(vpointer)
                             \ {vshares[num].nodeId : num \in DOMAIN vshares})

\* An audit of a segment with two pieces left got one share, and the other
\* piece was not found: the Report names that node as failed.
InconclusiveAuditReturned ==
  /\ vpc = "done"
  /\ verr = "notenough"
  /\ Cardinality(DownloadedShares) = 1
  /\ vreport.fails # {}
  /\ vreport.successes = {}


\* ------------------------------------------------------------ SpecCancel: a cancelled audit
\* The error of a GetShare whose ctx is cancelled: from the dial (a transport
\* error) or from the download, with the status code of a call that did not
\* end in a status of the node.
CancelErrors ==
  {[transport |-> t, ctxDeadline |-> FALSE, code |-> c] :
     t \in BOOLEAN, c \in {"Unknown", "Internal"}}

\* The outcomes of an audit whose ctx is cancelled during DownloadShares: the
\* downloads in flight, at least one, end with the cancellation error.
CancelledOutcomes(ptr) ==
  {oc \in AuditOutcomes(ptr) :
     /\ \E i \in PieceNums(ptr) : oc[i].kind = "error"
     /\ \A i \in PieceNums(ptr) : oc[i].kind = "error" => oc[i].err \in CancelErrors}

\* Verifier.Verify from CreateAuditOrderLimits to auditShares when ctx is
\* cancelled while shares are being downloaded. DownloadShares returns the
\* shares with a nil error; the metainfo.Get of checkIfSegmentAltered returns
\* the ctx error or ignores ctx.
VerifyCheckCancelled ==
  /\ vpc = "downloaded"
  /\ vcancel' = TRUE
  /\ \E oc \in CancelledOutcomes(vpointer) : \E getErr \in {"nil", "canceled"} :
       LET orderLimits == CreateAuditOrderLimits(vpointer, oc)
           offlineNodes0 == getOfflineNodes(vpointer, orderLimits, SkipOf(vpointer, oc))
           shares == DownloadShares(vpointer, orderLimits, oc)
           altered == IF getErr # "nil" THEN getErr
                      ELSE checkIfSegmentAltered(pointers, MetaPath, vpointer)
           offlineNodes == offlineNodes0 \cup NodesClassified(shares, "offline")
           failedNodes == NodesClassified(shares, "failed")
           toAudit == sharesToAudit(shares)
           a == auditShares(toAudit)
       IN /\ vshares' = shares
          /\ IF altered # "nil"
             THEN /\ vreport' = Report({}, {}, offlineNodes0, {})
                  /\ verr' = altered
                  /\ vpc' = "done"
                  /\ UNCHANGED <<vnodes, vcorrected>>
             ELSE IF Cardinality(DOMAIN toAudit) < Required
             THEN /\ vreport' = Report({}, failedNodes, offlineNodes, {})
                  /\ verr' = "notenough"
                  /\ vpc' = "done"
                  /\ UNCHANGED <<vnodes, vcorrected>>
             ELSE IF a.err # "nil"
             THEN /\ vreport' = Report({}, failedNodes, offlineNodes, {})
                  /\ verr' = a.err
                  /\ vpc' = "done"
                  /\ UNCHANGED <<vnodes, vcorrected>>
             ELSE /\ vnodes' = [offline |-> offlineNodes,
                                failed |-> failedNodes
                                  \cup {shares[num].nodeId : num \in a.pieceNums},
                                contained |-> containedNodes(shares)]
                  /\ vcorrected' = a.corrected
                  /\ vpc' = "classified"
                  /\ UNCHANGED <<vreport, verr>>
  /\ UNCHANGED <<dbVars, pointers, workerVars, vpointer, vremoved, reverifyVars>>

NextCancel ==
  \/ VerifyStart
  \/ VerifyCheck
  \/ VerifyCheckCancelled
  \/ VerifyFinish
  \/ (vpc # "done" /\ Commit)
  \/ (vpc # "done" /\ Delete)

SpecCancel == Init /\ [][NextCancel]_vars

\* C30: if an audit is cancelled while share downloads are in flight, no
\* PendingAudit is recorded and no Report is emitted: Verify returns an error
\* and no node is named in a Report.
CancelledAuditReportsNothing ==
  (vcancel /\ vpc = "done")
     => /\ verr # "nil"
        /\ vreport.pendingAudits = {}
        /\ vreport.successes = {}
        /\ vreport.fails = {}
        /\ vreport.offlines = {}

\* ------------------------------------------------------------ Spec: blob store
\* A blob is written and committed (Store.Create and the writer's Commit).
BlobCreate(ref) ==
  /\ Len(bloblog) < MaxBlobOps
  /\ LET c == DirCommit(blobs, ref)
     IN /\ blobs' = c.dir
        /\ bloblog' = Append(bloblog, BlobCall("create", ref, blobs, c.dir, c.err))
  /\ UNCHANGED <<storeVars, overlayVars, queueVars, selectVars, orderVars,
                 objectVars, getshare, pipeVars>>

BlobDelete(ref) ==
  /\ Len(bloblog) < MaxBlobOps
  /\ LET d == StoreDelete(blobs, ref)
     IN /\ blobs' = d.dir
        /\ bloblog' = Append(bloblog, BlobCall("delete", ref, blobs, d.dir, d.err))
  /\ UNCHANGED <<storeVars, overlayVars, queueVars, selectVars, orderVars,
                 objectVars, getshare, pipeVars>>

BlobOpen(ref) ==
  /\ Len(bloblog) < MaxBlobOps
  /\ LET o == StoreOpen(blobs, ref)
     IN bloblog' = Append(bloblog, BlobCall("open", ref, blobs, blobs, o.err))
  /\ UNCHANGED <<storeVars, overlayVars, queueVars, selectVars, orderVars,
                 objectVars, blobs, getshare, pipeVars>>

NextBlobs ==
  \/ \E ref \in BlobRefs : BlobCreate(ref)
  \/ \E ref \in BlobRefs : BlobDelete(ref)
  \/ \E ref \in BlobRefs : BlobOpen(ref)

SpecBlobs == Init /\ [][NextBlobs]_vars

\* Two Delete calls of the same blob, one right after the other.
DeletedTwice(i) ==
  /\ i + 1 <= Len(bloblog)
  /\ bloblog[i].op = "delete"
  /\ bloblog[i + 1].op = "delete"
  /\ bloblog[i + 1].ref = bloblog[i].ref

ShareNotFound(n) ==
  /\ gshare[n].err # NoError
  /\ ~gshare[n].err.transport
  /\ gshare[n].err.code = "NotFound"

\* C32 as stated: Reverify classifies a node as success only if the node
\* returned a share whose SHA-256 equals the expected hash of its PendingAudit.
ReverifySuccessOnlyByHash ==
  [][\A n \in Nodes :
        (Resolves(n) /\ gmsg'[n].status = "success")
           => (gshare[n].err = NoError /\ HashMatches(n))]_vars

\* C32: Reverify classifies a node as success only if the node returned a
\* share whose SHA-256 equals the expected hash of its PendingAudit, or the
\* node returned NotFound or a share with another hash and the segment was
\* deleted or replaced since the goroutine read its pointer.
ReverifySuccessByHashOrAltered ==
  [][\A n \in Nodes :
        (Resolves(n) /\ gmsg'[n].status = "success")
           => \/ gshare[n].err = NoError /\ HashMatches(n)
              \/ /\ SegmentAlteredSince(n)
                 /\ \/ ShareNotFound(n)
                    \/ gshare[n].err = NoError /\ ~HashMatches(n)]_vars

\* A goroutine has a success result for a node that answered NotFound.
SuccessForMissingPiece ==
  \E n \in Nodes :
     /\ gpc[n] = "send"
     /\ gmsg[n].status = "success"
     /\ gshare[n] # NoShare
     /\ ShareNotFound(n)

\* ------------------------------------------------------------ reverify: results
\* The goroutine of node n has sent every result it makes.
GoroutineThrough(n) == gpc[n] \in {"none", "done", "dropped"}

\* C33: Reverify receives one result for each piece of the pointer, so that
\* when it returns its report every result that was made has been received:
\* no result is left in the channel or unsent, and no goroutine has sent two.
ReverifyReflectsEveryResult ==
  (rvpc = "done" /\ rvreport.present)
     => /\ ch = << >>
        /\ \A n \in Nodes : gpc[n] \in {"none", "done"}

\* ------------------------------------------------------------ Spec: reverify, blocked sends
\* Bound: the nodes that are in containment when Reverify starts.
MaxPending == 2

\* Audits of the segment could not get the shares of some nodes: their pending
\* audits are in containment before Reverify starts.
ContainBefore(n) ==
  /\ rvpc = "idle"
  /\ pointers[MetaPath].present
  /\ findPiece(pointers[MetaPath], n).found
  /\ n \notin Contained(containment)
  /\ Cardinality(Contained(containment)) < MaxPending
  /\ LET ptr == pointers[MetaPath]
         num == findPiece(ptr, n).pieceNum
         pa == createPendingAudits([i \in {num} |-> n],
                                   [i \in PieceNums(ptr) |-> StoredShare(ptr, i)],
                                   ptr, MetaPath)
     IN /\ pa.err = "nil"
        /\ \E a \in pa.pending : containment' = IncrementPending(containment, a)
  /\ UNCHANGED <<dbVars, pointers, workerVars, verifyVars, ch, mainVars, goVars>>

\* Reverify of a segment that was committed with all of its pieces, its
\* goroutines, and audits of the same segment that find contained nodes to have
\* failed and remove their pieces from the pointer right after Reverify read it.
NextBlocked ==
  \/ RvStart
  \/ RvSpawn
  \/ RvCollect
  \/ \E n \in Nodes : GStart(n)
  \/ \E n \in Nodes : GDownload(n)
  \/ \E n \in Nodes : GAnalyze(n)
  \/ \E n \in Nodes : GRemove(n)
  \/ \E n \in Nodes : GSend(n)
  \/ \E n \in Nodes : GDelete(n)
  \/ \E n \in Nodes : ContainBefore(n)
  \/ /\ rvpc = "idle" /\ ~pointers[MetaPath].present
     /\ Commit
     /\ Len(pointers'[MetaPath].pieces) = Total
  \/ \E w \in Workers : (rvpc = "spawn" /\ rvi = 1 /\ AuditRead(w))
  \/ \E w \in Workers :
        /\ rvpc = "spawn" /\ rvi = 1
        /\ AuditRemove(w)
        /\ PieceNodes(pointers[MetaPath]) \ PieceNodes(pointers'[MetaPath])
              \subseteq Contained(containment)

SpecBlocked == Init /\ [][NextBlocked]_vars

\* The goroutine of node n is at a send on the result channel.
Sending(n) == gpc[n] \in {"send", "senderred", "sendskipped"}

\* Reverify will not receive from the channel again: it has returned, or it
\* waits at a send of its first loop for room in the full channel.
ReverifyReceivesNoMore ==
  \/ rvpc = "done"
  \/ /\ rvpc = "spawn"
     /\ Len(ch) = Len(rvpieces)
     /\ rvpieces[rvi].nodeId \notin Contained(containment)

\* C34: every goroutine started by Reverify terminates: none waits at a send
\* on the full result channel when Reverify will receive no more.
NoGoroutineBlockedForever ==
  \A n \in Nodes :
     ~(Sending(n) /\ Len(ch) = Len(rvpieces) /\ ReverifyReceivesNoMore)

\* ------------------------------------------------------------ object commit: interruption
\* CommitObject has deleted the final segment's key and has not stored the
\* pointer under the l key: it is between the two calls, or its Put failed.
CommitObjectCutShort ==
  \/ copc = "put"
  \/ copc = "done" /\ cerr = "Internal" /\ clast.pointer.present

\* C35: if CommitObject is interrupted or fails at any point, the pointer of the
\* object's final uploaded segment is stored under its s<index> key or under
\* the l key, never under neither.
FinalSegmentUnderSomeKey ==
  CommitObjectCutShort
     => (osegs[clast.path].present \/ osegs[<<"l">>].present)

\* ------------------------------------------------------------ repair queue: entries
\* C36: each successful Dequeue removes exactly one entry from the repair
\* queue, also when the same segment was enqueued more than once, so that the
\* successful Dequeues are as many as the successful Enqueues.
DequeueRemovesOneEntry ==
  [][\A d \in Dequeuers :
        (qpc[d] = "first" /\ qpc'[d] = "done" /\ qout'[d].err = "nil")
           => Len(injured') = Len(injured) - 1]_vars

\* ------------------------------------------------------------ Spec: download timeout
\* Verifier.GetShare up to its Dial: timedCtx is made.
GetShareBegin(shareSize, minBytesPerSecond, minDownloadTimeout) ==
  /\ getshare.pc \in {"idle", "done"}
  /\ getshare' = GetShareCall("download", shareSize, minBytesPerSecond,
                              minDownloadTimeout,
                              timedCtx(shareSize, minBytesPerSecond,
                                       minDownloadTimeout),
                              0, "none")
  /\ UNCHANGED <<storeVars, overlayVars, queueVars, selectVars, orderVars,
                 objectVars, blobVars, pipeVars>>

\* Time passes while Dial, Download and ReadFull wait for the node; a timedCtx
\* with a timeout ends them when the timeout has passed.
GetShareWait ==
  /\ getshare.pc = "download"
  /\ getshare.elapsed < MaxElapsed
  /\ getshare.ctx.timed => getshare.elapsed < getshare.ctx.timeout
  /\ getshare' = [getshare EXCEPT !.elapsed = @ + 1]
  /\ UNCHANGED <<storeVars, overlayVars, queueVars, selectVars, orderVars,
                 objectVars, blobVars, pipeVars>>

\* Verifier.GetShare returns: the node has answered, or timedCtx is done.
GetShareReturn ==
  /\ getshare.pc = "download"
  /\ \/ /\ getshare.ctx.timed => getshare.elapsed < getshare.ctx.timeout
        /\ getshare' = [getshare EXCEPT !.pc = "done", !.err = "nil"]
     \/ /\ getshare.ctx.timed
        /\ getshare.elapsed = getshare.ctx.timeout
        /\ getshare' = [getshare EXCEPT !.pc = "done", !.err = "DeadlineExceeded"]
  /\ UNCHANGED <<storeVars, overlayVars, queueVars, selectVars, orderVars,
                 objectVars, blobVars, pipeVars>>

NextGetShare ==
  \/ \E s \in ShareSizes, b \in MinBytesPerSecond, m \in MinDownloadTimeouts :
        GetShareBegin(s, b, m)
  \/ GetShareWait
  \/ GetShareReturn

SpecGetShare == Init /\ [][NextGetShare]_vars

\* The timeout t is max(min_download_timeout, share_size / min_bytes_per_second)
\* to the tick: it is at least the minimum, it is not a tick shorter than the
\* transfer time, and it is one of the two.
IsMaxOfMinimumAndTransferTime(t, g) ==
  /\ t >= g.minDownloadTimeout
  /\ (t + 1) * g.minBytesPerSecond > Second * g.shareSize
  /\ \/ t = g.minDownloadTimeout
     \/ t * g.minBytesPerSecond <= Second * g.shareSize

\* C37 as stated: every audit share download is bounded by a timeout equal to
\* max(min_download_timeout, share_size / min_bytes_per_second).
DownloadHasTimeout ==
  getshare.pc # "idle"
     => /\ getshare.ctx.timed
        /\ getshare.elapsed <= getshare.ctx.timeout
        /\ getshare.minBytesPerSecond > 0
              => IsMaxOfMinimumAndTransferTime(getshare.ctx.timeout, getshare)

\* C37: every audit share download of a verifier whose min_bytes_per_second
\* is above 0 is bounded by a timeout equal to max(min_download_timeout,
\* share_size / min_bytes_per_second); with min_bytes_per_second = 0 the
\* download has no timeout of its own.
DownloadHasTimeoutUnlessNoMinimumRate ==
  getshare.pc # "idle"
     => IF getshare.minBytesPerSecond > 0
        THEN /\ getshare.ctx.timed
             /\ getshare.elapsed <= getshare.ctx.timeout
             /\ IsMaxOfMinimumAndTransferTime(getshare.ctx.timeout, getshare)
        ELSE ~getshare.ctx.timed

\* A download ran into the timeout of its transfer time, which was longer than
\* the minimum.
DownloadTimedOutAtTransferTime ==
  /\ getshare.pc = "done"
  /\ getshare.err = "DeadlineExceeded"
  /\ getshare.ctx.timeout > getshare.minDownloadTimeout
  /\ getshare.elapsed = getshare.ctx.timeout

\* ------------------------------------------------------------ Spec: pipe
PipeRest == <<storeVars, overlayVars, queueVars, selectVars, orderVars, objectVars,
              blobVars, getshare>>

\* NewPipeMemory, or NewMultiPipeMemory and MultiPipe.Pipe(index).
MakePipe(pipeSize) ==
  /\ ~pipe.made
  /\ pipe' = NewPipeMemory(pipeSize)
  /\ UNCHANGED <<PipeRest, pwriter, preader, phalf, preceived>>

MakeMultiPipe(pipeSize) ==
  /\ ~pipe.made
  /\ pipe' = NewMultiPipe(pipeSize)
  /\ UNCHANGED <<PipeRest, pwriter, preader, phalf, preceived>>

\* pipeWriter.Write(data) up to its first Unlock.  The writer numbers the
\* bytes it writes: the byte that follows k written bytes is k + 1.
WriteBegin(len) ==
  /\ pipe.made
  /\ pwriter.pc = "idle"
  /\ ~phalf.writer
  /\ pwriter' = writeCheck(pipe, [i \in 1 .. len |-> pipe.write + i])
  /\ UNCHANGED <<PipeRest, pipe, preader, phalf, preceived>>

\* pipeWriter.Write, its buffer.WriteAt(data[:toWrite], writeAt).
WriteAt ==
  /\ pwriter.pc = "writeat"
  /\ pipe' = [pipe EXCEPT !.buffer =
                 BufferWriteAt(@, SubSeq(pwriter.data, 1, pwriter.toWrite),
                               pwriter.writeAt)]
  /\ pwriter' = [pwriter EXCEPT !.pc = "update", !.n = pwriter.toWrite]
  /\ UNCHANGED <<PipeRest, preader, phalf, preceived>>

\* pipeWriter.Write from its second Lock to its return.
WriteEnd ==
  /\ pwriter.pc = "update"
  /\ pipe' = [pipe EXCEPT !.write = @ + pwriter.n]
  /\ preader' = Broadcast(preader)
  /\ pwriter' = [pwriter EXCEPT
                    !.pc = "idle",
                    !.err = IF pipe.write + pwriter.n >= pipe.limit
                            THEN "ErrClosedPipe" ELSE "nil"]
  /\ UNCHANGED <<PipeRest, phalf, preceived>>

\* pipeReader.Read(data) up to its first Unlock or its nodata.Wait.
ReadBegin(len) ==
  /\ pipe.made
  /\ preader.pc = "idle"
  /\ preader' = readCheck(pipe, len)
  /\ UNCHANGED <<PipeRest, pipe, pwriter, phalf, preceived>>

\* pipeReader.Read, woken in nodata.Wait: the next turn of its loop.
ReadWake ==
  /\ preader.pc = "wait"
  /\ preader.woken
  /\ preader' = readCheck(pipe, preader.len)
  /\ UNCHANGED <<PipeRest, pipe, pwriter, phalf, preceived>>

\* pipeReader.Read, its buffer.ReadAt(data[:toRead], readAt).
ReadAt ==
  /\ preader.pc = "readat"
  /\ preader' = [preader EXCEPT
                    !.pc = "update",
                    !.got = BufferReadAt(pipe.buffer, preader.toRead, preader.readAt),
                    !.n = preader.toRead]
  /\ UNCHANGED <<PipeRest, pipe, pwriter, phalf, preceived>>

\* pipeReader.Read from its second Lock to its return.
ReadEnd ==
  /\ preader.pc = "update"
  /\ pipe' = [pipe EXCEPT !.read = @ + preader.n]
  /\ preceived' = preceived \o preader.got
  /\ preader' = [preader EXCEPT
                    !.pc = "idle",
                    !.err = IF pipe.read + preader.n >= pipe.limit
                            THEN "EOF" ELSE "nil"]
  /\ UNCHANGED <<PipeRest, pwriter, phalf>>

\* pipeWriter.CloseWithError(err) up to its Unlock, called by the writing
\* goroutine between its writes; Close is CloseWithError(io.EOF).
WriterClose(err) ==
  /\ pipe.made
  /\ pwriter.pc = "idle"
  /\ ~phalf.writer
  /\ IF pipe.writerDone
     THEN /\ phalf' = [phalf EXCEPT !.writerRet = "ErrClosedPipe"]
          /\ UNCHANGED <<pipe, preader>>
     ELSE /\ pipe' = [pipe EXCEPT !.writerDone = TRUE, !.writerErr = err]
          /\ preader' = Broadcast(preader)
          /\ phalf' = [phalf EXCEPT !.writer = TRUE, !.writerRet = "none"]
  /\ UNCHANGED pwriter
  /\ UNCHANGED <<PipeRest, preceived>>

\* pipeReader.CloseWithError(io.ErrClosedPipe) up to its Unlock, called by the
\* reading goroutine between its reads or by another goroutine during a Read.
ReaderClose ==
  /\ pipe.made
  /\ ~phalf.reader
  /\ IF pipe.readerDone
     THEN /\ phalf' = [phalf EXCEPT !.readerRet = "ErrClosedPipe"]
          /\ UNCHANGED pipe
     ELSE /\ pipe' = [pipe EXCEPT !.readerDone = TRUE, !.readerErr = "ErrClosedPipe"]
          /\ phalf' = [phalf EXCEPT !.reader = TRUE, !.readerRet = "none"]
  /\ UNCHANGED <<PipeRest, pwriter, preader, preceived>>

\* pipe.closeHalf at the end of a CloseWithError.
CloseHalf(half) ==
  /\ phalf[half]
  /\ pipe' = closeHalf(pipe)
  /\ phalf' = IF half = "writer"
              THEN [phalf EXCEPT !.writer = FALSE, !.writerRet = "nil"]
              ELSE [phalf EXCEPT !.reader = FALSE, !.readerRet = "nil"]
  /\ UNCHANGED <<PipeRest, pwriter, preader, preceived>>

NextPipe ==
  \/ \E pipeSize \in 1 .. MaxPipeSize : MakePipe(pipeSize)
  \/ \E pipeSize \in 1 .. MaxPipeSize : MakeMultiPipe(pipeSize)
  \/ \E len \in 1 .. MaxData : WriteBegin(len)
  \/ WriteAt
  \/ WriteEnd
  \/ \E len \in 1 .. MaxData : ReadBegin(len)
  \/ ReadWake
  \/ ReadAt
  \/ ReadEnd
  \/ \E err \in {"EOF", "upload failed"} : WriterClose(err)
  \/ ReaderClose
  \/ \E half \in {"writer", "reader"} : CloseHalf(half)

SpecPipe == Init /\ [][NextPipe]_vars

\* ------------------------------------------------------------ pipe claims
\* The bytes that Write calls have counted as written: 1 .. pipe.write.
Written == [i \in 1 .. pipe.write |-> i]

\* C38: under any interleaving of one writer and one reader, the reader
\* receives the bytes the writer wrote, in order and without duplication, and a
\* Read returns io.EOF only when every written byte has been received and the
\* writer has closed or pipeSize bytes have been read.
ReaderReceivesWhatWasWritten ==
  /\ Len(preceived) <= pipe.write
  /\ preceived = SubSeq(Written, 1, Len(preceived))
  /\ Len(preceived) = pipe.read
  /\ (preader.pc = "idle" /\ preader.err = "EOF")
        => /\ preceived = Written
           /\ pipe.writerDone \/ pipe.read >= pipe.limit

\* The reader got io.EOF from a closed writer after it received bytes from
\* more than one Write and more than one Read.
ReadToEOFAfterClose ==
  /\ preader.pc = "idle" /\ preader.err = "EOF"
  /\ pipe.writerDone /\ pipe.read < pipe.limit
  /\ Len(preceived) = 2
  /\ preader.n = 0

\* The Read is asleep in nodata.Wait and no Broadcast has reached it.
ReadAsleep == preader.pc = "wait" /\ ~preader.woken

\* C39: a Read blocked waiting for data returns once the writer has written
\* more data, the writer half is closed or the reader half is closed: it is
\* not left asleep when one of the three has happened.
BlockedReadIsWoken ==
  ReadAsleep
     => /\ pipe.read >= pipe.write
        /\ ~pipe.writerDone
        /\ ~pipe.readerDone

\* Both halves of the pipe are closed, their closeHalf calls included.
BothHalvesClosed ==
  /\ pipe.made
  /\ pipe.writerDone /\ pipe.readerDone
  /\ ~phalf.writer /\ ~phalf.reader

\* C40: the backing buffer of every pipe, a pipe of a MultiPipe included, is
\* closed exactly once, when the second of its two halves is closed; closing a
\* half that is closed already does not count again.
BufferClosedOnceWithSecondHalf ==
  /\ pipe.closed <= 1
  /\ pipe.closed = 1 <=> BothHalvesClosed

====
